---- MODULE Spec2Model ----
(***************************************************************************)
(* A model of the rule engine of better-react-state: the analyzer loop,    *)
(* the shared extraction helpers and the decision logic of the rules.      *)
(*                                                                         *)
(* Strings are sequences of one-character strings, so that toLowerCase,    *)
(* startsWith, endsWith, includes and the regular expressions of the       *)
(* source are computed character by character.  A syntax tree is a record  *)
(* with a `type` field, as Babel's nodes are.                              *)
(***************************************************************************)
EXTENDS Integers, Sequences, FiniteSets, TLC

VARIABLES
    pc,                 \* position of the running operation
    stateCalls,         \* the StateCall[] of the component a checkComponent is applied to
    groups,             \* the groups the grouping function of the rule returned
    issues,             \* analyze: the Issue[] being collected
    files,              \* analyze: the files the glob found
    projectContext,     \* analyze: the detected ProjectContext
    fileIndex,          \* analyze: how many files the loop has taken
    ast,                \* analyze: the parsed tree of the current file
    ruleIndex,          \* analyze: position in the rules registry
    fnIndex,            \* check: how many functions the traversal has visited
    ruleIssues,         \* check: the local issues array of the running rule
    componentProps,     \* check: the componentProps map of detect-prop-drilling
    filesSkipped,       \* analyze: the files given up on
    filesAnalyzed,      \* analyze: counter of the files that went through
    reactComponentsFound, \* analyze: counter of the components met
    result,             \* analyze: the AnalysisResult returned
    run,                \* which of two successive runs of the rule set is going on
    firstRun,           \* the issues and context of the first of the two runs
    nextContext         \* the context the second of the two runs is given

analyzerVars ==
    <<files, projectContext, fileIndex, ast, ruleIndex, fnIndex, ruleIssues,
      componentProps, filesSkipped, filesAnalyzed, reactComponentsFound, result,
      run, firstRun, nextContext>>

vars == <<pc, stateCalls, groups, issues, analyzerVars>>

---------------------------------------------------------------------------
(* Strings *)

UpperChars == <<"A","B","C","D","E","F","G","H","I","J","K","L","M",
                "N","O","P","Q","R","S","T","U","V","W","X","Y","Z">>
LowerChars == <<"a","b","c","d","e","f","g","h","i","j","k","l","m",
                "n","o","p","q","r","s","t","u","v","w","x","y","z">>
DigitChars == <<"0","1","2","3","4","5","6","7","8","9">>

Range(s) == {s[i] : i \in DOMAIN s}

IsUpperChar(c) == c \in Range(UpperChars)
IsAlnumChar(c) == c \in Range(UpperChars) \cup Range(LowerChars) \cup Range(DigitChars)
IsDigitChar(c) == c \in Range(DigitChars)

ToLowerChar(c) ==
    IF IsUpperChar(c)
    THEN LowerChars[CHOOSE i \in DOMAIN UpperChars : UpperChars[i] = c]
    ELSE c

ToUpperChar(c) ==
    IF c \in Range(LowerChars)
    THEN UpperChars[CHOOSE i \in DOMAIN LowerChars : LowerChars[i] = c]
    ELSE c

toLowerCase(s) == [i \in DOMAIN s |-> ToLowerChar(s[i])]

startsWith(s, p) == Len(p) <= Len(s) /\ SubSeq(s, 1, Len(p)) = p

endsWith(s, p) == Len(p) <= Len(s) /\ SubSeq(s, Len(s) - Len(p) + 1, Len(s)) = p

includes(s, p) ==
    \E i \in 0..(Len(s) - Len(p)) : SubSeq(s, i + 1, i + Len(p)) = p

some(list, Test(_)) == \E i \in DOMAIN list : Test(list[i])

\* Array.prototype.find: the first element passing the test, <<>> (undefined) if none
find(list, Test(_)) ==
    IF some(list, Test)
    THEN list[CHOOSE i \in DOMAIN list :
                 Test(list[i]) /\ \A j \in 1..(i - 1) : ~Test(list[j])]
    ELSE <<>>

RECURSIVE joinFrom(_, _, _)
joinFrom(list, sep, i) ==
    IF i > Len(list) THEN <<>>
    ELSE IF i = Len(list) THEN list[i]
    ELSE list[i] \o sep \o joinFrom(list, sep, i + 1)

\* Array.prototype.join
join(list, sep) == joinFrom(list, sep, 1)

RECURSIVE NatToString(_)
NatToString(n) ==
    IF n < 10 THEN <<DigitChars[n + 1]>>
    ELSE NatToString(n \div 10) \o <<DigitChars[(n % 10) + 1]>>

\* String(value) of a non-negative integer literal
String(n) == NatToString(n)

capitalize(str) ==
    IF str = <<>> THEN <<>> ELSE <<ToUpperChar(str[1])>> \o SubSeq(str, 2, Len(str))

---------------------------------------------------------------------------
(* Syntax-tree nodes *)

\* {1,10} in the key test of isNormalizedStructure
MaxIdKeyLength == 10

Loc(l, c) == [line |-> l, column |-> c]

\* An argument that is not there: node.arguments[0] of useState()
Undefined == [type |-> "undefined"]

StringLiteral(v) == [type |-> "StringLiteral", value |-> v]
NumericLiteral(v) == [type |-> "NumericLiteral", value |-> v]
BooleanLiteral(v) == [type |-> "BooleanLiteral", value |-> v]
NullLiteral == [type |-> "NullLiteral"]
Identifier(n) == [type |-> "Identifier", name |-> n]
ObjectProperty(k, v) == [type |-> "ObjectProperty", key |-> k, value |-> v]
ObjectExpression(props) == [type |-> "ObjectExpression", properties |-> props]
ArrayExpression(elems) == [type |-> "ArrayExpression", elements |-> elems]
CallExpression(c, args) == [type |-> "CallExpression", callee |-> c, arguments |-> args]

isStringLiteral(n) == n.type = "StringLiteral"
isNumericLiteral(n) == n.type = "NumericLiteral"
isBooleanLiteral(n) == n.type = "BooleanLiteral"
isNullLiteral(n) == n.type = "NullLiteral"
isIdentifier(n) == n.type = "Identifier"
isObjectExpression(n) == n.type = "ObjectExpression"
isArrayExpression(n) == n.type = "ArrayExpression"
isObjectProperty(n) == n.type = "ObjectProperty"
isObjectMethod(n) == n.type = "ObjectMethod"

\* One entry of findUseStateCalls: const [name, setterName] = useState(initialValue)
StateCall(n, s, init, l) ==
    [name |-> n, setterName |-> s, initialValue |-> init, loc |-> l]

getNodeLocation(loc) == [line |-> loc.line, column |-> loc.column]

---------------------------------------------------------------------------
(* Rule: group-related-state *)

baseNameSuffixes ==
    << <<"i","d">>, <<"n","a","m","e">>, <<"e","m","a","i","l">>, <<"p","h","o","n","e">>, <<"a","d","d","r","e","s","s">>, <<"d","a","t","e">>, <<"t","i","m","e">>, <<"c","o","u","n","t">>,
       <<"t","o","t","a","l">>, <<"s","i","z","e">>, <<"p","r","i","c","e">>, <<"q","u","a","n","t","i","t","y">>, <<"s","t","a","t","u","s">>, <<"t","y","p","e">>, <<"d","e","s","c","r","i","p","t","i","o","n">> >>

baseNamePrefixes == << <<"i","s">>, <<"h","a","s">>, <<"s","h","o","u","l","d">>, <<"c","a","n">>, <<"w","i","l","l">> >>

baseNameOrdinals == << <<"f","i","r","s","t">>, <<"l","a","s","t">>, <<"m","i","d","d","l","e">> >>

\* /^(.+)(Id|Name|...)$/i : the greedy (.+) leaves the shortest suffix that fits
SuffixMatch(name) ==
    LET ln == toLowerCase(name)
        fits == {i \in DOMAIN baseNameSuffixes :
                    endsWith(ln, baseNameSuffixes[i]) /\ Len(ln) > Len(baseNameSuffixes[i])}
    IN  IF fits = {} THEN <<>>
        ELSE LET i == CHOOSE k \in fits :
                        \A m \in fits : Len(baseNameSuffixes[k]) <= Len(baseNameSuffixes[m])
             IN  SubSeq(name, 1, Len(name) - Len(baseNameSuffixes[i]))

\* /^(is|has|...)(.+)$/i : group 1 is the prefix itself
PrefixMatch(name, prefixes) ==
    LET ln == toLowerCase(name)
        p == find(prefixes, LAMBDA q : startsWith(ln, q) /\ Len(ln) > Len(q))
    IN  IF p = <<>> THEN <<>> ELSE SubSeq(name, 1, Len(p))

extractBaseName(name) ==
    IF SuffixMatch(name) # <<>> THEN toLowerCase(SuffixMatch(name))
    ELSE IF PrefixMatch(name, baseNamePrefixes) # <<>>
         THEN toLowerCase(PrefixMatch(name, baseNamePrefixes))
    ELSE IF PrefixMatch(name, baseNameOrdinals) # <<>>
         THEN toLowerCase(PrefixMatch(name, baseNameOrdinals))
    ELSE <<>>

formFieldSuffixes ==
    << <<"n","a","m","e">>, <<"e","m","a","i","l">>, <<"p","a","s","s","w","o","r","d">>, <<"p","h","o","n","e">>, <<"a","d","d","r","e","s","s">>, <<"c","i","t","y">>, <<"s","t","a","t","e">>, <<"z","i","p">>, <<"c","o","u","n","t","r","y">> >>

statePatterns == << <<"l","o","a","d","i","n","g">>, <<"e","r","r","o","r">>, <<"s","u","c","c","e","s","s">>, <<"f","e","t","c","h","i","n","g">>, <<"p","e","n","d","i","n","g">> >>

commonPrefixes == << <<"i","s">>, <<"h","a","s">>, <<"s","h","o","u","l","d">>, <<"c","a","n">>, <<"w","i","l","l">> >>

areRelated(state1, state2) ==
    LET name1 == toLowerCase(state1.name)
        name2 == toLowerCase(state2.name)
        base1 == extractBaseName(name1)
        base2 == extractBaseName(name2)
        isFormField1 == some(formFieldSuffixes, LAMBDA suffix : endsWith(name1, suffix))
        isFormField2 == some(formFieldSuffixes, LAMBDA suffix : endsWith(name2, suffix))
        hasStatePattern1 == some(statePatterns, LAMBDA pattern : includes(name1, pattern))
        hasStatePattern2 == some(statePatterns, LAMBDA pattern : includes(name2, pattern))
        prefix1 == find(commonPrefixes, LAMBDA p : startsWith(name1, p))
        prefix2 == find(commonPrefixes, LAMBDA p : startsWith(name2, p))
    IN  \/ (base1 # <<>> /\ base2 # <<>> /\ base1 = base2)
        \/ (isFormField1 /\ isFormField2)
        \/ (hasStatePattern1 /\ hasStatePattern2)
        \/ (prefix1 # <<>> /\ prefix2 # <<>> /\ prefix1 = prefix2)

\* collectRelated comparing each candidate with its predecessor instead of the group's first state
RECURSIVE collectRelated_Chained(_, _, _, _)
collectRelated_Chained(calls, i, j, processed) ==
    IF j > Len(calls) THEN <<>>
    ELSE IF j \notin processed /\ areRelated(calls[j - 1], calls[j])
         THEN <<j>> \o collectRelated_Chained(calls, i, j + 1, processed)
         ELSE collectRelated_Chained(calls, i, j + 1, processed)

\* The inner loop over j of findRelatedStateGroups: the positions after i that
\* are not yet processed and are related to the state at i, in order
RECURSIVE collectRelated(_, _, _, _)
collectRelated(calls, i, j, processed) ==
    IF j > Len(calls) THEN <<>>
    ELSE IF j \notin processed /\ areRelated(calls[i], calls[j])
         THEN <<j>> \o collectRelated(calls, i, j + 1, processed)
         ELSE collectRelated(calls, i, j + 1, processed)

\* The outer loop over i without the processed set: every entry anchors a group
RECURSIVE groupsFrom_Overlapping(_, _, _)
groupsFrom_Overlapping(calls, i, processed) ==
    IF i > Len(calls) THEN <<>>
    ELSE LET group == <<i>> \o collectRelated(calls, i, i + 1, {})
             rest == groupsFrom_Overlapping(calls, i + 1, processed)
         IN  IF Len(group) >= 2 THEN <<group>> \o rest ELSE rest

\* The outer loop over i; a group is a sequence of positions in calls
RECURSIVE groupsFrom(_, _, _)
groupsFrom(calls, i, processed) ==
    IF i > Len(calls) THEN <<>>
    ELSE IF i \in processed THEN groupsFrom(calls, i + 1, processed)
    ELSE LET group == <<i>> \o collectRelated(calls, i, i + 1, processed)
             rest == groupsFrom(calls, i + 1, processed \cup Range(group))
         IN  IF Len(group) >= 2 THEN <<group>> \o rest ELSE rest

findRelatedStateGroups(calls) == groupsFrom(calls, 1, {})

getGroupName(calls, group) ==
    LET baseNames == [k \in DOMAIN group |-> extractBaseName(calls[group[k]].name)]
        first == find(baseNames, LAMBDA b : b # <<>>)
    IN  IF first # <<>> THEN first ELSE <<"s","t","a","t","e">>

getInitialValueString(node) ==
    IF node = Undefined THEN <<"u","n","d","e","f","i","n","e","d">>
    ELSE IF isStringLiteral(node) THEN <<"'">> \o node.value \o <<"'">>
    ELSE IF isNumericLiteral(node) THEN String(node.value)
    ELSE IF isBooleanLiteral(node) THEN (IF node.value THEN <<"t","r","u","e">> ELSE <<"f","a","l","s","e">>)
    ELSE IF isNullLiteral(node) THEN <<"n","u","l","l">>
    ELSE IF isIdentifier(node) /\ node.name = <<"u","n","d","e","f","i","n","e","d">> THEN <<"u","n","d","e","f","i","n","e","d">>
    ELSE IF isArrayExpression(node) THEN <<"[","]">>
    ELSE IF isObjectExpression(node) THEN <<"{","}">>
    ELSE <<"i","n","i","t","i","a","l","V","a","l","u","e">>

Issue(r, sev, msg, f, location, sugg, fix) ==
    [rule |-> r, severity |-> sev, message |-> msg, file |-> f,
     line |-> location.line, column |-> location.column,
     suggestion |-> sugg, fixable |-> fix]

\* A template literal: its fixed text, named, and the interpolated strings in order
Text(template, parts) == [template |-> template, parts |-> parts]

groupRelatedIssue(calls, group, filename) ==
    LET firstState == calls[group[1]]
        location == getNodeLocation(firstState.loc)
        names == [k \in DOMAIN group |-> calls[group[k]].name]
        fields == [k \in DOMAIN group |->
                      calls[group[k]].name \o <<":"," ">>
                          \o getInitialValueString(calls[group[k]].initialValue)]
    IN  Issue("group-related-state", "warning",
              Text("Found {n} related state variables that should be grouped: {names}",
                   <<String(Len(group)), join(names, <<","," ">>)>>),
              filename, location,
              Text("Consider combining these into a single state object: const [{g}, set{G}] = useState({ {fields} })",
                   <<getGroupName(calls, group), capitalize(getGroupName(calls, group)),
                     join(fields, <<","," ">>)>>),
              TRUE)

\* checkComponent of group-related-state: the issues it pushes, in order
groupRelatedCheckComponent(calls, filename) ==
    LET relatedGroups == findRelatedStateGroups(calls)
    IN  [k \in DOMAIN relatedGroups |-> groupRelatedIssue(calls, relatedGroups[k], filename)]

---------------------------------------------------------------------------
(* Rule: avoid-state-contradictions *)

booleanPrefixes == << <<"i","s">>, <<"h","a","s">>, <<"s","h","o","u","l","d">>, <<"c","a","n">>, <<"w","i","l","l">>, <<"d","i","d">>, <<"d","o","e","s">> >>

isBooleanState(state) ==
    LET name == toLowerCase(state.name)
        hasBooleanPrefix == some(booleanPrefixes, LAMBDA prefix : startsWith(name, prefix))
        hasBooleanInitialValue == isBooleanLiteral(state.initialValue)
    IN  hasBooleanPrefix \/ hasBooleanInitialValue

contradictionPatterns ==
    << << <<"l","o","a","d","i","n","g">>, <<"e","r","r","o","r">>, <<"s","u","c","c","e","s","s">>, <<"i","d","l","e">> >>,
       << <<"f","e","t","c","h","i","n","g">>, <<"e","r","r","o","r">>, <<"s","u","c","c","e","s","s">> >>,
       << <<"p","e","n","d","i","n","g">>, <<"r","e","s","o","l","v","e","d">>, <<"r","e","j","e","c","t","e","d">> >>,
       << <<"o","p","e","n">>, <<"c","l","o","s","e","d">>, <<"c","l","o","s","i","n","g">>, <<"o","p","e","n","i","n","g">> >>,
       << <<"v","i","s","i","b","l","e">>, <<"h","i","d","d","e","n">>, <<"h","i","d","i","n","g">>, <<"s","h","o","w","i","n","g">> >>,
       << <<"e","x","p","a","n","d","e","d">>, <<"c","o","l","l","a","p","s","e","d">>, <<"e","x","p","a","n","d","i","n","g">>, <<"c","o","l","l","a","p","s","i","n","g">> >>,
       << <<"p","r","i","s","t","i","n","e">>, <<"d","i","r","t","y">>, <<"s","u","b","m","i","t","t","i","n","g">>, <<"s","u","b","m","i","t","t","e","d">> >>,
       << <<"v","a","l","i","d">>, <<"i","n","v","a","l","i","d">>, <<"v","a","l","i","d","a","t","i","n","g">> >>,
       << <<"c","o","n","n","e","c","t","e","d">>, <<"d","i","s","c","o","n","n","e","c","t","e","d">>, <<"c","o","n","n","e","c","t","i","n","g">> >>,
       << <<"o","n","l","i","n","e">>, <<"o","f","f","l","i","n","e">>, <<"r","e","c","o","n","n","e","c","t","i","n","g">> >> >>

stateWords == << <<"l","o","a","d","i","n","g">>, <<"e","r","r","o","r">>, <<"s","u","c","c","e","s","s">>, <<"p","e","n","d","i","n","g">>, <<"c","o","m","p","l","e","t","e">> >>

\* String.prototype.replace(word, ''): the first occurrence of word removed
replaceFirst(s, word) ==
    IF ~includes(s, word) THEN s
    ELSE LET i == CHOOSE k \in 0..(Len(s) - Len(word)) :
                     /\ SubSeq(s, k + 1, k + Len(word)) = word
                     /\ \A m \in 0..(k - 1) : SubSeq(s, m + 1, m + Len(word)) # word
         IN  SubSeq(s, 1, i) \o SubSeq(s, i + Len(word) + 1, Len(s))

canContradict(state1, state2) ==
    LET name1 == toLowerCase(state1.name)
        name2 == toLowerCase(state2.name)
    IN  \/ \E k \in DOMAIN contradictionPatterns :
              /\ some(contradictionPatterns[k], LAMBDA p : includes(name1, p))
              /\ some(contradictionPatterns[k], LAMBDA p : includes(name2, p))
        \/ \E w1, w2 \in DOMAIN stateWords :
              /\ stateWords[w1] # stateWords[w2]
              /\ includes(name1, stateWords[w1])
              /\ includes(name2, stateWords[w2])
              /\ replaceFirst(name1, stateWords[w1]) = replaceFirst(name2, stateWords[w2])

RECURSIVE collectContradictory(_, _, _, _)
collectContradictory(calls, i, j, processed) ==
    IF j > Len(calls) THEN <<>>
    ELSE IF j \notin processed /\ canContradict(calls[i], calls[j])
         THEN <<j>> \o collectContradictory(calls, i, j + 1, processed)
         ELSE collectContradictory(calls, i, j + 1, processed)

RECURSIVE contradictoryFrom(_, _, _)
contradictoryFrom(calls, i, processed) ==
    IF i > Len(calls) THEN <<>>
    ELSE IF i \in processed THEN contradictoryFrom(calls, i + 1, processed)
    ELSE LET group == <<i>> \o collectContradictory(calls, i, i + 1, processed)
             rest == contradictoryFrom(calls, i + 1, processed \cup Range(group))
         IN  IF Len(group) >= 2 THEN <<group>> \o rest ELSE rest

\* Groups are sequences of positions in booleanStates
findContradictoryGroups(booleanStates) == contradictoryFrom(booleanStates, 1, {})

\* Array.prototype.filter
RECURSIVE filterFrom(_, _, _)
filterFrom(list, Test(_), i) ==
    IF i > Len(list) THEN <<>>
    ELSE IF Test(list[i]) THEN <<list[i]>> \o filterFrom(list, Test, i + 1)
    ELSE filterFrom(list, Test, i + 1)

filter(list, Test(_)) == filterFrom(list, Test, 1)

\* booleanStatesOf without the isBooleanState filter
booleanStatesOf_Unfiltered(calls) == calls

\* The states checkComponent hands to findContradictoryGroups
booleanStatesOf(calls) == filter(calls, isBooleanState)

\* name.replace(/^(is|has|should|can|will|did|does)/, '')
stripBooleanPrefix(name) ==
    LET p == find(booleanPrefixes, LAMBDA q : startsWith(name, q))
    IN  SubSeq(name, Len(p) + 1, Len(name))

\* value.replace(/^_+/, '')
RECURSIVE stripUnderscores(_)
stripUnderscores(s) ==
    IF s # <<>> /\ s[1] = "_" THEN stripUnderscores(SubSeq(s, 2, Len(s))) ELSE s

RECURSIVE enumValuesFrom(_, _, _)
enumValuesFrom(names, i, values) ==
    IF i > Len(names) THEN values
    ELSE LET value == toLowerCase(stripUnderscores(stripBooleanPrefix(names[i])))
         IN  IF value # <<>> /\ value \notin Range(values)
             THEN enumValuesFrom(names, i + 1, Append(values, value))
             ELSE enumValuesFrom(names, i + 1, values)

generateEnumValues(calls, group) ==
    LET names == [k \in DOMAIN group |-> toLowerCase(calls[group[k]].name)]
        values == enumValuesFrom(names, 1, <<>>)
        withIdle == IF /\ \E v \in Range(values) : v \in { <<"l","o","a","d","i","n","g">>, <<"f","e","t","c","h","i","n","g">>, <<"p","e","n","d","i","n","g">> }
                       /\ <<"i","d","l","e">> \notin Range(values)
                    THEN << <<"i","d","l","e">> >> \o values
                    ELSE values
    IN  IF Len(withIdle) > 0 THEN withIdle
        ELSE << <<"i","d","l","e">>, <<"l","o","a","d","i","n","g">>, <<"s","u","c","c","e","s","s">>, <<"e","r","r","o","r">> >>

contradictionIssue(calls, group, filename) ==
    LET firstState == calls[group[1]]
        location == getNodeLocation(firstState.loc)
        stateNames == join([k \in DOMAIN group |-> calls[group[k]].name], <<","," ">>)
        enumValues == generateEnumValues(calls, group)
    IN  Issue("avoid-state-contradictions", "error",
              Text("Found {n} boolean states that can contradict: {stateNames}",
                   <<String(Len(group)), stateNames>>),
              filename, location,
              Text("Replace with a single state: const [status, setStatus] = useState<'{enumValues}'>('{first}')",
                   <<join(enumValues, <<"'"," ","|"," ","'">>), enumValues[1]>>),
              TRUE)

\* checkComponent of avoid-state-contradictions
contradictionsCheckComponent(calls, filename) ==
    LET booleanStates == booleanStatesOf(calls)
        contradictoryGroups == findContradictoryGroups(booleanStates)
    IN  [k \in DOMAIN contradictoryGroups |->
            contradictionIssue(booleanStates, contradictoryGroups[k], filename)]

---------------------------------------------------------------------------
(* Rule: avoid-deeply-nested-state *)

max(a, b) == IF a >= b THEN a ELSE b

RECURSIVE getObjectDepth(_, _)
RECURSIVE propertiesDepth(_, _, _, _)
RECURSIVE elementsDepth(_, _, _, _)

\* The loop over node.properties, maxDepth carried along
propertiesDepth(properties, i, currentDepth, maxDepth) ==
    IF i > Len(properties) THEN maxDepth
    ELSE IF isObjectProperty(properties[i])
         THEN propertiesDepth(properties, i + 1, currentDepth,
                  max(maxDepth, getObjectDepth(properties[i].value, currentDepth + 1)))
    ELSE IF isObjectMethod(properties[i])
         THEN propertiesDepth(properties, i + 1, currentDepth, max(maxDepth, currentDepth + 1))
    ELSE propertiesDepth(properties, i + 1, currentDepth, maxDepth)

\* The loop over node.elements; a hole in the array is skipped
elementsDepth(elements, i, currentDepth, maxDepth) ==
    IF i > Len(elements) THEN maxDepth
    ELSE IF elements[i] # Undefined
         THEN elementsDepth(elements, i + 1, currentDepth,
                  max(maxDepth, getObjectDepth(elements[i], currentDepth)))
    ELSE elementsDepth(elements, i + 1, currentDepth, maxDepth)

getObjectDepth(node, currentDepth) ==
    IF node = Undefined THEN currentDepth
    ELSE IF isObjectExpression(node)
         THEN propertiesDepth(node.properties, 1, currentDepth, currentDepth + 1)
    ELSE IF isArrayExpression(node)
         THEN elementsDepth(node.elements, 1, currentDepth, currentDepth)
    ELSE currentDepth

\* The text of a property key: an identifier's name, String(value) of a numeric
\* literal, a string literal's value, '' for any other key
keyNameOf(key) ==
    IF isIdentifier(key) THEN key.name
    ELSE IF isNumericLiteral(key) THEN String(key.value)
    ELSE IF isStringLiteral(key) THEN key.value
    ELSE <<>>

\* /^\d+<<"|","^","[","a","-","z","A","-","Z","0","-","9","]","{","1",",","1","0","}">>/.test(keyName)
looksLikeId(keyName) ==
    \/ (Len(keyName) >= 1 /\ \A i \in DOMAIN keyName : IsDigitChar(keyName[i]))
    \/ (Len(keyName) >= 1 /\ Len(keyName) <= MaxIdKeyLength
            /\ \A i \in DOMAIN keyName : IsAlnumChar(keyName[i]))

\* hasIdKeys of one nested object: no object property has a key that fails the test
hasIdKeys(nestedProps) ==
    \A i \in DOMAIN nestedProps :
        isObjectProperty(nestedProps[i]) =>
            (keyNameOf(nestedProps[i].key) # <<>> /\ looksLikeId(keyNameOf(nestedProps[i].key)))

isNormalizedStructure(node) ==
    IF node = Undefined \/ ~isObjectExpression(node) THEN FALSE
    ELSE \E i \in DOMAIN node.properties :
            /\ isObjectProperty(node.properties[i])
            /\ isObjectExpression(node.properties[i].value)
            /\ hasIdKeys(node.properties[i].value.properties)

nestedIssue(stateCall, depth, filename) ==
    Issue("avoid-deeply-nested-state", "warning",
          Text("State '{name}' is nested {depth} levels deep, which makes updates complex",
               <<stateCall.name, String(depth)>>),
          filename, getNodeLocation(stateCall.loc),
          Text("Consider flattening the state structure or normalizing the data", <<>>),
          FALSE)

\* nestedCheckStateCall without the else-branch that flags depth > 3
nestedCheckStateCall_NoSecondBranch(stateCall, filename) ==
    LET depth == getObjectDepth(stateCall.initialValue, 0)
        isNormalized == isNormalizedStructure(stateCall.initialValue)
    IN  IF depth > 2 /\ ~isNormalized THEN <<nestedIssue(stateCall, depth, filename)>>
        ELSE <<>>

\* The body of the loop of checkComponent for one state call
nestedCheckStateCall(stateCall, filename) ==
    LET depth == getObjectDepth(stateCall.initialValue, 0)
        isNormalized == isNormalizedStructure(stateCall.initialValue)
    IN  IF depth > 2 /\ ~isNormalized THEN <<nestedIssue(stateCall, depth, filename)>>
        ELSE IF depth > 3 THEN <<nestedIssue(stateCall, depth, filename)>>
        ELSE <<>>

RECURSIVE flatMapFrom(_, _, _)
flatMapFrom(list, F(_), i) ==
    IF i > Len(list) THEN <<>> ELSE F(list[i]) \o flatMapFrom(list, F, i + 1)

\* The concatenation of F over list, in order
flatMap(list, F(_)) == flatMapFrom(list, F, 1)

\* checkComponent of avoid-deeply-nested-state
nestedCheckComponent(calls, filename) ==
    flatMap(calls, LAMBDA sc : nestedCheckStateCall(sc, filename))

---------------------------------------------------------------------------

---------------------------------------------------------------------------
(* Functions of a parsed file, as a traversal meets them *)

MemberExpression(o, p) ==
    [type |-> "MemberExpression", object |-> o, property |-> p, computed |-> FALSE]
BinaryExpression(op, l, r) ==
    [type |-> "BinaryExpression", operator |-> op, left |-> l, right |-> r]
LogicalExpression(op, l, r) ==
    [type |-> "LogicalExpression", operator |-> op, left |-> l, right |-> r]
ConditionalExpression(c, a, b) ==
    [type |-> "ConditionalExpression", test |-> c, consequent |-> a, alternate |-> b]
\* a nested function: ref is the identity of the node, body its expression body
\* (NullLiteral stands for a block body, whose statements are met separately)
ArrowFunctionExpression(ref, body) ==
    [type |-> "ArrowFunctionExpression", ref |-> ref, body |-> body]
ArrayPattern(elems) == [type |-> "ArrayPattern", elements |-> elems]
ObjectPattern(props) == [type |-> "ObjectPattern", properties |-> props]
RestElement(arg) == [type |-> "RestElement", argument |-> arg]
VariableDeclarator(id) == [type |-> "VariableDeclarator", id |-> id]
ExpressionStatement == [type |-> "ExpressionStatement"]
ExportDefaultDeclaration == [type |-> "ExportDefaultDeclaration"]
Program == [type |-> "Program"]

isMemberExpression(n) == n.type = "MemberExpression"
isCallExpression(n) == n.type = "CallExpression"
isBinaryExpression(n) == n.type = "BinaryExpression"
isLogicalExpression(n) == n.type = "LogicalExpression"
isConditionalExpression(n) == n.type = "ConditionalExpression"
isArrowFunctionExpression(n) == n.type = "ArrowFunctionExpression"
isArrayPattern(n) == n.type = "ArrayPattern"
isObjectPattern(n) == n.type = "ObjectPattern"
isRestElement(n) == n.type = "RestElement"
isVariableDeclarator(n) == n.type = "VariableDeclarator"
isExportDefaultDeclaration(n) == n.type = "ExportDefaultDeclaration"
isFunction(n) ==
    n.type \in {"FunctionDeclaration", "FunctionExpression", "ArrowFunctionExpression"}

\* One step of a NodePath's parent chain.  ref is the identity of the node
\* (0 stands for the function being traversed); name is the callee name of a
\* CallExpression, the declared name of a VariableDeclarator, the key name of
\* an ObjectProperty, and empty otherwise.
Ancestor(type, ref, name) == [type |-> type, ref |-> ref, name |-> name]

\* A node a visitor is called with: the node's own fields, where it is
\* (loc), its parent node and its parent chain, from the parent up to the body
\* of the traversed function.
Visited(node, parent, loc, ancestors) ==
    [node |-> node, parent |-> parent, loc |-> loc, ancestors |-> ancestors]

\* NodePath.findParent: the nearest ancestor passing the test, <<>> if none
findParent(visited, Test(_)) == find(visited.ancestors, Test)

\* NodePath.getFunctionParent: the identity of the nearest enclosing function
getFunctionParent(visited) ==
    LET fn == findParent(visited, isFunction)
    IN  IF fn = <<>> THEN 0 ELSE fn.ref

\* the nodes of one type in the order a traversal visits them
visit(fn, type) == SelectSeq(fn.visited, LAMBDA v : v.node.type = type)

\* path.traverse of a nested function: the visited nodes below the node ref
visitBelow(fn, ref, type) ==
    SelectSeq(fn.visited,
              LAMBDA v : v.node.type = type /\ \E k \in DOMAIN v.ancestors : v.ancestors[k].ref = ref)

\* A function of the file: FunctionDeclaration, FunctionExpression or
\* ArrowFunctionExpression, with its parent node and the nodes below it
Function(type, id, parent, params, loc, visited) ==
    [type |-> type, id |-> id, parent |-> parent, params |-> params,
     loc |-> loc, visited |-> visited]

\* isReactComponent that looks for markup before it looks at names
isReactComponent_MarkupFirst(fn) ==
    IF ~isFunction(fn) THEN FALSE
    ELSE IF \E k \in DOMAIN fn.visited : fn.visited[k].node.type \in {"JSXElement", "JSXFragment"}
    THEN TRUE
    ELSE IF fn.type = "FunctionDeclaration" /\ fn.id # NullLiteral
    THEN IsUpperChar(fn.id.name[1])
    ELSE isVariableDeclarator(fn.parent) /\ isIdentifier(fn.parent.id)
         /\ IsUpperChar(fn.parent.id.name[1])

isReactComponent(fn) ==
    IF ~isFunction(fn) THEN FALSE
    ELSE IF fn.type = "FunctionDeclaration" /\ fn.id # NullLiteral
    THEN IsUpperChar(fn.id.name[1])
    ELSE IF isVariableDeclarator(fn.parent) /\ isIdentifier(fn.parent.id)
    THEN IsUpperChar(fn.parent.id.name[1])
    ELSE \E k \in DOMAIN fn.visited : fn.visited[k].node.type \in {"JSXElement", "JSXFragment"}

findUseStateCalls(fn) ==
    LET calls == visit(fn, "CallExpression")
        isUseState(v) ==
            /\ isIdentifier(v.node.callee) /\ v.node.callee.name = <<"u","s","e","S","t","a","t","e">>
            /\ isVariableDeclarator(v.parent) /\ isArrayPattern(v.parent.id)
            /\ Len(v.parent.id.elements) >= 2
            /\ isIdentifier(v.parent.id.elements[1])
            /\ isIdentifier(v.parent.id.elements[2])
        found == SelectSeq(calls, isUseState)
    IN  [k \in DOMAIN found |->
            StateCall(found[k].parent.id.elements[1].name,
                      found[k].parent.id.elements[2].name,
                      IF found[k].node.arguments = <<>> THEN Undefined
                      ELSE found[k].node.arguments[1],
                      found[k].loc)]

\* findUseEffectCalls: the useEffect registrations of a component, each with
\* its callback (the first argument, Undefined if there is none)
findUseEffectCalls(fn) ==
    LET calls == visit(fn, "CallExpression")
        found == SelectSeq(calls, LAMBDA v :
                    isIdentifier(v.node.callee) /\ v.node.callee.name = <<"u","s","e","E","f","f","e","c","t">>)
    IN  [k \in DOMAIN found |->
            [callback |-> IF found[k].node.arguments = <<>> THEN Undefined
                          ELSE found[k].node.arguments[1],
             loc |-> found[k].loc]]

---------------------------------------------------------------------------
(* Rule: avoid-redundant-state *)

computedPatterns ==
    << <<"t","o","t","a","l">>, <<"s","u","m">>, <<"c","o","u","n","t">>, <<"l","e","n","g","t","h">>, <<"s","i","z","e">>,
       <<"f","u","l","l">>, <<"e","m","p","t","y">>, <<"v","a","l","i","d">>, <<"i","n","v","a","l","i","d">>,
       <<"e","n","a","b","l","e","d">>, <<"d","i","s","a","b","l","e","d">>, <<"v","i","s","i","b","l","e">>, <<"h","i","d","d","e","n">>,
       <<"s","e","l","e","c","t","e","d">>, <<"c","h","e","c","k","e","d">>, <<"a","c","t","i","v","e">>,
       <<"f","o","r","m","a","t","t","e","d">>, <<"d","i","s","p","l","a","y">>, <<"l","a","b","e","l">>,
       <<"p","e","r","c","e","n","t">>, <<"p","r","o","g","r","e","s","s">>, <<"r","a","t","i","o">>,
       <<"m","i","n">>, <<"m","a","x">>, <<"a","v","e","r","a","g","e">>, <<"m","e","a","n">> >>

\* isLikelyComputedState(allStates[i], allStates)
isLikelyComputedState(allStates, i) ==
    LET name == toLowerCase(allStates[i].name)
        hasComputedPattern == some(computedPatterns, LAMBDA pattern : includes(name, pattern))
        isSource(j) ==
            IF j = i THEN FALSE
            ELSE IF some(<< <<"c","o","u","n","t">>, <<"l","e","n","g","t","h">>, <<"s","i","z","e">>, <<"t","o","t","a","l">> >>, LAMBDA p : includes(name, p))
            THEN \/ isArrayExpression(allStates[j].initialValue)
                 \/ includes(name, <<"i","t","e","m","s">>)
                 \/ includes(name, <<"l","i","s","t">>)
            ELSE IF some(<< <<"e","n","a","b","l","e","d">>, <<"d","i","s","a","b","l","e","d">>, <<"v","i","s","i","b","l","e">>, <<"h","i","d","d","e","n">> >>,
                         LAMBDA p : includes(name, p))
            THEN isBooleanState(allStates[j])
            ELSE TRUE
        potentialSources == {j \in DOMAIN allStates : isSource(j)}
    IN  hasComputedPattern /\ Cardinality(potentialSources) > 0

redundantIssue(state, filename) ==
    Issue("avoid-redundant-state", "warning",
          Text("State '{name}' appears to be computable from other state", <<state.name>>),
          filename, getNodeLocation(state.loc),
          Text("Consider computing this value during render instead of storing in state", <<>>),
          TRUE)

\* checkComponent of avoid-redundant-state; checkForComputedUpdates, called
\* last, ends in analyzeRelatedSetters, which pushes nothing
redundantCheckComponent(fn, filename) ==
    LET calls == findUseStateCalls(fn)
        flagged == SelectSeq([k \in DOMAIN calls |-> k],
                             LAMBDA k : isLikelyComputedState(calls, k))
    IN  [k \in DOMAIN flagged |-> redundantIssue(calls[flagged[k]], filename)]

---------------------------------------------------------------------------
(* Rule: avoid-state-duplication *)

\* the values of a list in the order they first appear: the keys of a Map,
\* the members of a Set
RECURSIVE uniqueFrom(_, _, _)
uniqueFrom(list, i, seen) ==
    IF i > Len(list) THEN seen
    ELSE IF \E k \in DOMAIN seen : seen[k] = list[i]
    THEN uniqueFrom(list, i + 1, seen)
    ELSE uniqueFrom(list, i + 1, Append(seen, list[i]))

unique(list) == uniqueFrom(list, 1, <<>>)

\* Array.prototype.map
map(list, Op(_)) == [k \in DOMAIN list |-> Op(list[k])]

\* the index of the first element passing the test, 0 if none
findIndex(list, Test(_)) ==
    IF some(list, Test)
    THEN CHOOSE i \in DOMAIN list : Test(list[i]) /\ \A j \in 1..(i - 1) : ~Test(list[j])
    ELSE 0

extractComponentProps(fn) ==
    IF Len(fn.params) = 0 THEN <<>>
    ELSE LET firstParam == fn.params[1]
         IN  IF isObjectPattern(firstParam)
             THEN map(SelectSeq(firstParam.properties,
                                LAMBDA prop : isObjectProperty(prop) /\ isIdentifier(prop.key)),
                      LAMBDA prop : prop.key.name)
             ELSE IF isIdentifier(firstParam)
             THEN map(SelectSeq(visit(fn, "MemberExpression"),
                                LAMBDA v : /\ isIdentifier(v.node.object)
                                           /\ v.node.object.name = firstParam.name
                                           /\ isIdentifier(v.node.property)),
                      LAMBDA v : v.node.property.name)
             ELSE <<>>

\* extractPropReference reading any "object.x" as a prop reference
extractPropReference_AnyObject(node) ==
    IF isIdentifier(node) THEN node.name
    ELSE IF isMemberExpression(node) /\ isIdentifier(node.object)
            /\ isIdentifier(node.property)
    THEN node.property.name
    ELSE <<>>

\* extractPropReference: <<>> stands for null
extractPropReference(node) ==
    IF isIdentifier(node) THEN node.name
    ELSE IF isMemberExpression(node) /\ isIdentifier(node.object)
            /\ node.object.name = <<"p","r","o","p","s">> /\ isIdentifier(node.property)
    THEN node.property.name
    ELSE <<>>

isObjectInitializer(node) ==
    isObjectExpression(node) \/ (isIdentifier(node) /\ includes(node.name, <<"i","n","i","t","i","a","l">>))

countObjectProperties(node) ==
    IF isObjectExpression(node) THEN Len(node.properties) ELSE 0

propsInitializationIssues(stateCalls_, stateCall, props, filename) ==
    LET initValue == stateCall.initialValue
        propName == extractPropReference(initValue)
        objectName == IF isIdentifier(initValue.object) THEN initValue.object.name ELSE <<>>
        property == IF isIdentifier(initValue.property) THEN initValue.property.name
                    ELSE <<"p","r","o","p","e","r","t","y">>
    IN  (IF /\ isIdentifier(initValue) \/ isMemberExpression(initValue)
            /\ propName # <<>>
            /\ some(props, LAMBDA p : p = propName)
         THEN << Issue("avoid-state-duplication", "warning",
                       Text("State '{name}' is initialized from prop '{prop}', which can cause synchronization issues",
                            <<stateCall.name, propName>>),
                       filename, getNodeLocation(stateCall.loc),
                       Text("Use the prop directly or derive state from props in an effect if needed", <<>>),
                       FALSE) >>
         ELSE <<>>)
        \o
        (IF /\ isMemberExpression(initValue)
            /\ some(stateCalls_, LAMBDA s : s.name = objectName)
         THEN << Issue("avoid-state-duplication", "warning",
                       Text("State '{name}' is initialized from '{object}.{property}', creating duplication",
                            <<stateCall.name, objectName, property>>),
                       filename, getNodeLocation(stateCall.loc),
                       Text("Consider using a single source of truth or computing derived values", <<>>),
                       FALSE) >>
         ELSE <<>>)

checkPropsInitialization(stateCalls_, props, filename) ==
    flatMap(stateCalls_, LAMBDA stateCall :
                propsInitializationIssues(stateCalls_, stateCall, props, filename))

checkStateDuplication(stateCalls_, fn, filename) ==
    flatMap(visit(fn, "CallExpression"), LAMBDA v :
        LET node == v.node
            setterState == findIndex(stateCalls_, LAMBDA s :
                               isIdentifier(node.callee) /\ node.callee.name = s.setterName)
            arg == node.arguments[1]
            sourceState == findIndex(stateCalls_, LAMBDA s :
                               isIdentifier(arg) /\ arg.name = s.name)
        IN  IF /\ setterState # 0
               /\ Len(node.arguments) > 0
               /\ sourceState # 0
               /\ sourceState # setterState
            THEN << Issue("avoid-state-duplication", "warning",
                          Text("State '{setter}' is being set from state '{source}', creating duplication",
                               <<stateCalls_[setterState].name, stateCalls_[sourceState].name>>),
                          filename, getNodeLocation(v.loc),
                          Text("Consider using a single source of truth or computing derived values", <<>>),
                          FALSE) >>
            ELSE <<>>)

checkSelectiveUsage(stateCalls_, fn, filename) ==
    LET accesses == SelectSeq(visit(fn, "MemberExpression"), LAMBDA v :
                        /\ isIdentifier(v.node.object) /\ isIdentifier(v.node.property)
                        /\ some(stateCalls_, LAMBDA s : s.name = v.node.object.name))
        stateNames == unique(map(accesses, LAMBDA v : v.node.object.name))
        usedPropsOf(stateName) ==
            unique(map(SelectSeq(accesses, LAMBDA v : v.node.object.name = stateName),
                       LAMBDA v : v.node.property.name))
    IN  flatMap(stateNames, LAMBDA stateName :
            LET state == find(stateCalls_, LAMBDA s : s.name = stateName)
                usedProps == usedPropsOf(stateName)
                totalProps == countObjectProperties(state.initialValue)
            IN  IF /\ isObjectInitializer(state.initialValue)
                   /\ Len(usedProps) <= 2
                   /\ totalProps > 3
                   /\ 2 * Len(usedProps) < totalProps
                THEN << Issue("avoid-state-duplication", "info",
                              Text("State '{name}' stores {n} properties but only uses {used}",
                                   <<stateName, String(totalProps), join(usedProps, <<","," ">>)>>),
                              filename, getNodeLocation(state.loc),
                              Text("Consider storing only the needed properties or using a ref for non-reactive data", <<>>),
                              FALSE) >>
                ELSE <<>>)

\* checkComponent of avoid-state-duplication
duplicationCheckComponent(fn, filename) ==
    LET calls == findUseStateCalls(fn)
        props == extractComponentProps(fn)
    IN  checkPropsInitialization(calls, props, filename)
        \o checkStateDuplication(calls, fn, filename)
        \o checkSelectiveUsage(calls, fn, filename)

---------------------------------------------------------------------------
(* Rule: prefer-explicit-transitions *)

RECURSIVE sumFrom(_, _)
sumFrom(numbers, i) ==
    IF i > Len(numbers) THEN 0 ELSE numbers[i] + sumFrom(numbers, i + 1)

sum(numbers) == sumFrom(numbers, 1)

\* the positions of a list
indexes(list) == [k \in DOMAIN list |-> k]

calleeNamed(v, name) == isIdentifier(v.node.callee) /\ v.node.callee.name = name

\* hasUseReducer that never finds the call
hasUseReducer_Never(fn) == FALSE

hasUseReducer(fn) ==
    some(visit(fn, "CallExpression"), LAMBDA v : calleeNamed(v, <<"u","s","e","R","e","d","u","c","e","r">>))

isInConditional(v) ==
    some(v.ancestors, LAMBDA a :
            a.type \in {"IfStatement", "ConditionalExpression", "SwitchStatement"})

\* the identity of the nearest BlockStatement, 0 if there is none
nearestBlock(v) ==
    LET block == findParent(v, LAMBDA a : a.type = "BlockStatement")
    IN  IF block = <<>> THEN 0 ELSE block.ref

areInSameScope(v1, v2) == nearestBlock(v1) = nearestBlock(v2)

\* whether the visited node lies below the function ref (0: the traversed one)
isBelow(v, ref) == ref = 0 \/ \E k \in DOMAIN v.ancestors : v.ancestors[k].ref = ref

\* findSiblingSetters of the i-th call of the component; setterNames are the
\* keys of the patterns map
findSiblingSetters(calls, i, setterNames) ==
    LET functionParent == getFunctionParent(calls[i])
        siblings == SelectSeq(indexes(calls), LAMBDA j :
                        /\ j # i
                        /\ isBelow(calls[j], functionParent)
                        /\ isIdentifier(calls[j].node.callee)
                        /\ some(setterNames, LAMBDA s : s = calls[j].node.callee.name)
                        /\ areInSameScope(calls[i], calls[j]))
    IN  unique(map(siblings, LAMBDA j : calls[j].node.callee.name))

\* analyzeStateUpdates: one StateUpdatePattern per setter name
analyzeStateUpdates(fn, stateCalls_) ==
    LET setterNames == unique(map(stateCalls_, LAMBDA s : s.setterName))
        calls == visit(fn, "CallExpression")
        sitesOf(name) == SelectSeq(indexes(calls), LAMBDA i : calleeNamed(calls[i], name))
    IN  map(setterNames, LAMBDA name :
            [setterName |-> name,
             updateLocations |-> sitesOf(name),
             updatesWithOthers |->
                 flatMap(sitesOf(name), LAMBDA i : findSiblingSetters(calls, i, setterNames)),
             conditionalUpdates |->
                 Len(SelectSeq(sitesOf(name), LAMBDA i : isInConditional(calls[i]))),
             dependsOnPrevState |->
                 some(sitesOf(name), LAMBDA i :
                        /\ Len(calls[i].node.arguments) > 0
                        /\ isArrowFunctionExpression(calls[i].node.arguments[1]))])

\* getComplexityLevel asking the previous-value setters for two siblings
getComplexityLevel_TwoSiblings(stateCalls_, patterns) ==
    LET stateCount == Len(stateCalls_)
        complexUpdates == Len(SelectSeq(patterns, LAMBDA p :
                                  p.dependsOnPrevState /\ Len(p.updatesWithOthers) >= 2))
        relatedUpdates == Len(SelectSeq(patterns, LAMBDA p : Len(p.updatesWithOthers) >= 2))
        conditionalComplexity == Len(SelectSeq(patterns, LAMBDA p : p.conditionalUpdates >= 2))
    IN  IF \/ stateCount >= 8
           \/ complexUpdates >= 3
           \/ (conditionalComplexity >= 3 /\ stateCount >= 4)
        THEN "complex"
        ELSE IF \/ stateCount >= 4
                \/ relatedUpdates >= 2
                \/ (conditionalComplexity >= 2 /\ stateCount >= 3)
                \/ complexUpdates >= 2
        THEN "moderate"
        ELSE "simple"

\* getComplexityLevel without the last test of the moderate tier
getComplexityLevel_NoComplexPair(stateCalls_, patterns) ==
    LET stateCount == Len(stateCalls_)
        complexUpdates == Len(SelectSeq(patterns, LAMBDA p :
                                  p.dependsOnPrevState /\ Len(p.updatesWithOthers) > 0))
        relatedUpdates == Len(SelectSeq(patterns, LAMBDA p : Len(p.updatesWithOthers) >= 2))
        conditionalComplexity == Len(SelectSeq(patterns, LAMBDA p : p.conditionalUpdates >= 2))
    IN  IF \/ stateCount >= 8
           \/ complexUpdates >= 3
           \/ (conditionalComplexity >= 3 /\ stateCount >= 4)
        THEN "complex"
        ELSE IF \/ stateCount >= 4
                \/ relatedUpdates >= 2
                \/ (conditionalComplexity >= 2 /\ stateCount >= 3)
        THEN "moderate"
        ELSE "simple"

getComplexityLevel(stateCalls_, patterns) ==
    LET stateCount == Len(stateCalls_)
        complexUpdates == Len(SelectSeq(patterns, LAMBDA p :
                                  p.dependsOnPrevState /\ Len(p.updatesWithOthers) > 0))
        relatedUpdates == Len(SelectSeq(patterns, LAMBDA p : Len(p.updatesWithOthers) >= 2))
        conditionalComplexity == Len(SelectSeq(patterns, LAMBDA p : p.conditionalUpdates >= 2))
    IN  IF \/ stateCount >= 8
           \/ complexUpdates >= 3
           \/ (conditionalComplexity >= 3 /\ stateCount >= 4)
        THEN "complex"
        ELSE IF \/ stateCount >= 4
                \/ relatedUpdates >= 2
                \/ (conditionalComplexity >= 2 /\ stateCount >= 3)
                \/ complexUpdates >= 2
        THEN "moderate"
        ELSE "simple"

\* A ProjectContext, or Undefined when the caller passes none
ProjectContext(hasXState, hasXStateStore) ==
    [hasXState |-> hasXState, hasXStateStore |-> hasXStateStore]

\* context?.hasXState and context?.hasXStateStore
optionalHasXState(context) == context # Undefined /\ context.hasXState
optionalHasXStateStore(context) == context # Undefined /\ context.hasXStateStore

\* getSuggestion that drops the reducer from the advice for complex components
getSuggestion_LibraryOnly(complexity, context) ==
    IF complexity = "moderate"
    THEN IF optionalHasXStateStore(context)
         THEN Text(<<"C","o","n","s","i","d","e","r"," ","u","s","i","n","g"," ","@","x","s","t","a","t","e","/","s","t","o","r","e"," ","(","a","l","r","e","a","d","y"," ","i","n"," ","y","o","u","r"," ","p","r","o","j","e","c","t",")"," ","f","o","r"," ","a","t","o","m","i","c",","," ","e","v","e","n","t","-","d","r","i","v","e","n"," ","s","t","a","t","e"," ","u","p","d","a","t","e","s">>, <<>>)
         ELSE IF optionalHasXState(context)
         THEN Text(<<"C","o","n","s","i","d","e","r"," ","u","s","i","n","g"," ","u","s","e","R","e","d","u","c","e","r"," ","o","r"," ","@","x","s","t","a","t","e","/","s","t","o","r","e"," ","f","o","r"," ","b","e","t","t","e","r"," ","s","t","a","t","e"," ","o","r","g","a","n","i","z","a","t","i","o","n">>, <<>>)
         ELSE Text(<<"C","o","n","s","i","d","e","r"," ","u","s","i","n","g"," ","u","s","e","R","e","d","u","c","e","r"," ","t","o"," ","m","a","k","e"," ","s","t","a","t","e"," ","t","r","a","n","s","i","t","i","o","n","s"," ","m","o","r","e"," ","e","x","p","l","i","c","i","t"," ","a","n","d"," ","p","r","e","d","i","c","t","a","b","l","e">>, <<>>)
    ELSE IF optionalHasXState(context)
         THEN Text(<<"C","o","n","s","i","d","e","r"," ","u","s","i","n","g"," ","X","S","t","a","t","e"," ","(","a","l","r","e","a","d","y"," ","i","n"," ","y","o","u","r"," ","p","r","o","j","e","c","t",")"," ","f","o","r"," ","c","o","m","p","l","e","x"," ","s","t","a","t","e"," ","o","r","c","h","e","s","t","r","a","t","i","o","n"," ","a","n","d"," ","v","i","s","u","a","l"," ","m","o","d","e","l","i","n","g">>, <<>>)
         ELSE IF optionalHasXStateStore(context)
         THEN Text(<<"C","o","n","s","i","d","e","r"," ","u","s","i","n","g"," ","@","x","s","t","a","t","e","/","s","t","o","r","e"," ","(","a","l","r","e","a","d","y"," ","i","n"," ","y","o","u","r"," ","p","r","o","j","e","c","t",")"," ","o","r"," ","u","p","g","r","a","d","i","n","g"," ","t","o"," ","f","u","l","l"," ","X","S","t","a","t","e"," ","f","o","r"," ","c","o","m","p","l","e","x"," ","s","t","a","t","e"," ","m","a","c","h","i","n","e","s">>, <<>>)
         ELSE Text(<<"C","o","n","s","i","d","e","r"," ","e","x","p","l","o","r","i","n","g"," ","X","S","t","a","t","e"," ","f","o","r"," ","c","o","m","p","l","e","x"," ","s","t","a","t","e"," ","o","r","c","h","e","s","t","r","a","t","i","o","n">>, <<>>)

getSuggestion(complexity, context) ==
    IF complexity = "moderate"
    THEN IF optionalHasXStateStore(context)
         THEN Text(<<"C","o","n","s","i","d","e","r"," ","u","s","i","n","g"," ","@","x","s","t","a","t","e","/","s","t","o","r","e"," ","(","a","l","r","e","a","d","y"," ","i","n"," ","y","o","u","r"," ","p","r","o","j","e","c","t",")"," ","f","o","r"," ","a","t","o","m","i","c",","," ","e","v","e","n","t","-","d","r","i","v","e","n"," ","s","t","a","t","e"," ","u","p","d","a","t","e","s">>, <<>>)
         ELSE IF optionalHasXState(context)
         THEN Text(<<"C","o","n","s","i","d","e","r"," ","u","s","i","n","g"," ","u","s","e","R","e","d","u","c","e","r"," ","o","r"," ","@","x","s","t","a","t","e","/","s","t","o","r","e"," ","f","o","r"," ","b","e","t","t","e","r"," ","s","t","a","t","e"," ","o","r","g","a","n","i","z","a","t","i","o","n">>, <<>>)
         ELSE Text(<<"C","o","n","s","i","d","e","r"," ","u","s","i","n","g"," ","u","s","e","R","e","d","u","c","e","r"," ","t","o"," ","m","a","k","e"," ","s","t","a","t","e"," ","t","r","a","n","s","i","t","i","o","n","s"," ","m","o","r","e"," ","e","x","p","l","i","c","i","t"," ","a","n","d"," ","p","r","e","d","i","c","t","a","b","l","e">>, <<>>)
    ELSE IF optionalHasXState(context)
         THEN Text(<<"C","o","n","s","i","d","e","r"," ","u","s","i","n","g"," ","X","S","t","a","t","e"," ","(","a","l","r","e","a","d","y"," ","i","n"," ","y","o","u","r"," ","p","r","o","j","e","c","t",")"," ","f","o","r"," ","c","o","m","p","l","e","x"," ","s","t","a","t","e"," ","o","r","c","h","e","s","t","r","a","t","i","o","n"," ","a","n","d"," ","v","i","s","u","a","l"," ","m","o","d","e","l","i","n","g">>, <<>>)
         ELSE IF optionalHasXStateStore(context)
         THEN Text(<<"C","o","n","s","i","d","e","r"," ","u","s","i","n","g"," ","@","x","s","t","a","t","e","/","s","t","o","r","e"," ","(","a","l","r","e","a","d","y"," ","i","n"," ","y","o","u","r"," ","p","r","o","j","e","c","t",")"," ","o","r"," ","u","p","g","r","a","d","i","n","g"," ","t","o"," ","f","u","l","l"," ","X","S","t","a","t","e"," ","f","o","r"," ","c","o","m","p","l","e","x"," ","s","t","a","t","e"," ","m","a","c","h","i","n","e","s">>, <<>>)
         ELSE Text(<<"C","o","n","s","i","d","e","r"," ","u","s","i","n","g"," ","u","s","e","R","e","d","u","c","e","r"," ","o","r"," ","e","x","p","l","o","r","i","n","g"," ","X","S","t","a","t","e"," ","f","o","r"," ","c","o","m","p","l","e","x"," ","s","t","a","t","e"," ","o","r","c","h","e","s","t","r","a","t","i","o","n">>, <<>>)

\* checkComponent of prefer-explicit-transitions, with a detection that the
\* project context switches off: not what the source does
explicitTransitionsCheckComponent_ContextGated(fn, filename, context) ==
    LET calls == findUseStateCalls(fn)
        complexity == getComplexityLevel(calls, analyzeStateUpdates(fn, calls))
    IN  IF hasUseReducer(fn) \/ complexity = "simple" \/ optionalHasXState(context) THEN <<>>
        ELSE << Issue("prefer-explicit-transitions", "info",
                      Text("Component has {n} state variables with complex update patterns",
                           <<String(Len(calls))>>),
                      filename, getNodeLocation(fn.loc),
                      getSuggestion(complexity, context), FALSE) >>

\* checkComponent of prefer-explicit-transitions
explicitTransitionsCheckComponent(fn, filename, context) ==
    LET calls == findUseStateCalls(fn)
        complexity == getComplexityLevel(calls, analyzeStateUpdates(fn, calls))
    IN  IF hasUseReducer(fn) \/ complexity = "simple" THEN <<>>
        ELSE << Issue("prefer-explicit-transitions", "info",
                      Text("Component has {n} state variables with complex update patterns",
                           <<String(Len(calls))>>),
                      filename, getNodeLocation(fn.loc),
                      getSuggestion(complexity, context), FALSE) >>

---------------------------------------------------------------------------
(* Rule: detect-state-in-useeffect *)

\* /^set[A-Z]/ on a name longer than 3
isSetterName(name) ==
    startsWith(name, <<"s","e","t">>) /\ Len(name) > 3 /\ IsUpperChar(name[4])

\* setData -> data
camelCaseStateName(setter) ==
    <<ToLowerChar(setter[4])>> \o SubSeq(setter, 5, Len(setter))

\* the identity of a callback node, -1 if the node is no function
callbackRef(node) == IF isFunction(node) THEN node.ref ELSE -1

\* callbackPath.traverse: the visited nodes of a type below the effect callback
visitCallback(fn, effect, type) ==
    IF effect.callback = Undefined THEN <<>>
    ELSE visitBelow(fn, callbackRef(effect.callback), type)

findSetStateCallsInEffect(fn, effect) ==
    LET setters == SelectSeq(visitCallback(fn, effect, "CallExpression"), LAMBDA v :
                       isIdentifier(v.node.callee) /\ isSetterName(v.node.callee.name))
    IN  map(setters, LAMBDA v :
            [visited |-> v,
             stateName |-> camelCaseStateName(v.node.callee.name),
             argumentNode |-> IF Len(v.node.arguments) > 0 THEN v.node.arguments[1]
                              ELSE Undefined])

derivedPatterns ==
    << <<"f","i","l","t","e","r","e","d">>, <<"s","o","r","t","e","d">>, <<"f","o","r","m","a","t","t","e","d">>, <<"t","o","t","a","l">>, <<"s","u","m">>, <<"c","o","u","n","t">>, <<"p","e","r","c","e","n","t","a","g","e">>,
       <<"p","e","r","c","e","n","t">>, <<"r","a","t","i","o">>, <<"a","v","e","r","a","g","e">>, <<"m","e","a","n">>, <<"d","i","s","p","l","a","y">>, <<"l","a","b","e","l">>, <<"t","e","x","t">>, <<"v","i","s","i","b","l","e">>,
       <<"h","i","d","d","e","n">>, <<"e","n","a","b","l","e","d">>, <<"d","i","s","a","b","l","e","d">>, <<"v","a","l","i","d">>, <<"i","n","v","a","l","i","d">>, <<"a","l","l">>, <<"n","o","n","e">>, <<"s","o","m","e">>,
       <<"e","v","e","r","y">>, <<"h","a","s">>, <<"i","s">> >>

computationMethods ==
    << <<"f","i","l","t","e","r">>, <<"m","a","p">>, <<"r","e","d","u","c","e">>, <<"s","o","r","t">>, <<"f","i","n","d">>, <<"f","i","n","d","I","n","d","e","x">>, <<"s","o","m","e">>, <<"e","v","e","r","y">>,
       <<"i","n","c","l","u","d","e","s">>, <<"s","l","i","c","e">>, <<"c","o","n","c","a","t">> >>

stringMethods ==
    << <<"t","o","L","o","c","a","l","e","D","a","t","e","S","t","r","i","n","g">>, <<"t","o","L","o","c","a","l","e","S","t","r","i","n","g">>, <<"t","o","F","i","x","e","d">>, <<"t","o","L","o","w","e","r","C","a","s","e">>, <<"t","o","U","p","p","e","r","C","a","s","e">>,
       <<"t","r","i","m">>, <<"s","p","l","i","t">>, <<"j","o","i","n">> >>

mathOperators == {"+", "-", "*", "/", "%", "**"}

\* the child nodes of a node: what "for (const key in n)" finds
childNodes(n) ==
    IF isCallExpression(n) THEN <<n.callee>> \o n.arguments
    ELSE IF isMemberExpression(n) THEN <<n.object, n.property>>
    ELSE IF isBinaryExpression(n) \/ isLogicalExpression(n) THEN <<n.left, n.right>>
    ELSE IF isConditionalExpression(n) THEN <<n.test, n.consequent, n.alternate>>
    ELSE IF isArrowFunctionExpression(n) THEN <<n.body>>
    ELSE IF isArrayExpression(n) THEN n.elements
    ELSE IF isObjectExpression(n) THEN n.properties
    ELSE IF isObjectProperty(n) THEN <<n.key, n.value>>
    ELSE <<>>

RECURSIVE containsComputation(_)
containsComputation(n) ==
    \/ /\ isCallExpression(n)
       /\ isMemberExpression(n.callee) /\ isIdentifier(n.callee.property)
       /\ \/ some(computationMethods, LAMBDA m : m = n.callee.property.name)
          \/ some(stringMethods, LAMBDA m : m = n.callee.property.name)
    \/ isBinaryExpression(n) /\ n.operator \in mathOperators
    \/ isConditionalExpression(n)
    \/ isLogicalExpression(n)
    \/ \E k \in DOMAIN childNodes(n) : containsComputation(childNodes(n)[k])

externalAPIs == << <<"f","e","t","c","h">>, <<"s","e","t","T","i","m","e","o","u","t">>, <<"s","e","t","I","n","t","e","r","v","a","l">>, <<"a","d","d","E","v","e","n","t","L","i","s","t","e","n","e","r">> >>
browserAPIs == << <<"l","o","c","a","l","S","t","o","r","a","g","e">>, <<"s","e","s","s","i","o","n","S","t","o","r","a","g","e">>, <<"n","a","v","i","g","a","t","o","r">>, <<"w","i","n","d","o","w">>, <<"d","o","c","u","m","e","n","t">> >>
promiseMethods == << <<"t","h","e","n">>, <<"c","a","t","c","h">>, <<"f","i","n","a","l","l","y">> >>

\* containsExternalOperation of a visited setter call
containsExternalOperation(fn, v) ==
    LET effectBody == getFunctionParent(v)
        below(type) == SelectSeq(visit(fn, type), LAMBDA w : isBelow(w, effectBody))
    IN  \/ some(below("CallExpression"), LAMBDA w :
               LET node == w.node
               IN  \/ /\ isIdentifier(node.callee)
                      /\ some(externalAPIs, LAMBDA a : a = node.callee.name)
                   \/ /\ isMemberExpression(node.callee)
                      /\ isIdentifier(node.callee.object)
                      /\ some(browserAPIs, LAMBDA a : a = node.callee.object.name)
                   \/ /\ isMemberExpression(node.callee)
                      /\ isIdentifier(node.callee.property)
                      /\ some(promiseMethods, LAMBDA m : m = node.callee.property.name))
        \/ Len(below("AwaitExpression")) > 0
        \/ some(below("ReturnStatement"), LAMBDA w : getFunctionParent(w) = effectBody)

isLikelyDerivedState(fn, setStateCall) ==
    IF setStateCall.argumentNode = Undefined THEN FALSE
    ELSE LET stateName == toLowerCase(setStateCall.stateName)
             hasDerivatedPattern == some(derivedPatterns, LAMBDA p : includes(stateName, p))
             hasComputationPattern == containsComputation(setStateCall.argumentNode)
             hasExternalOperation == containsExternalOperation(fn, setStateCall.visited)
         IN  IF hasExternalOperation THEN FALSE
             ELSE hasDerivatedPattern \/ hasComputationPattern

\* checkComponent of detect-state-in-useeffect
stateInEffectCheckComponent(fn, filename) ==
    flatMap(findUseEffectCalls(fn), LAMBDA effectCall :
        flatMap(findSetStateCallsInEffect(fn, effectCall), LAMBDA setStateCall :
            IF isLikelyDerivedState(fn, setStateCall)
            THEN << Issue("detect-state-in-useeffect", "warning",
                          Text("State '{name}' appears to be derived from other state/props and should be computed during render",
                               <<setStateCall.stateName>>),
                          filename, getNodeLocation(setStateCall.visited.loc),
                          Text("Remove this useState and compute the value during render. If expensive, consider useMemo.", <<>>),
                          TRUE) >>
            ELSE <<>>))

---------------------------------------------------------------------------
(* Rule: detect-prop-drilling *)

\* getComponentName: <<>> stands for null
getComponentName(fn) ==
    IF fn.type = "FunctionDeclaration" /\ fn.id # NullLiteral THEN fn.id.name
    ELSE IF isVariableDeclarator(fn.parent) /\ isIdentifier(fn.parent.id)
    THEN fn.parent.id.name
    ELSE IF isExportDefaultDeclaration(fn.parent) THEN <<"D","e","f","a","u","l","t","E","x","p","o","r","t">>
    ELSE <<>>

\* extractProps: the members of the Set in insertion order
extractProps(fn) ==
    IF Len(fn.params) = 0 THEN <<>>
    ELSE LET firstParam == fn.params[1]
         IN  IF isObjectPattern(firstParam)
             THEN unique(flatMap(firstParam.properties, LAMBDA prop :
                      IF isObjectProperty(prop)
                      THEN (IF isIdentifier(prop.key) THEN <<prop.key.name>> ELSE <<>>)
                      ELSE IF isRestElement(prop) /\ isIdentifier(prop.argument)
                      THEN << <<".",".",".">> \o prop.argument.name >>
                      ELSE <<>>))
             ELSE IF isIdentifier(firstParam)
             THEN unique(map(SelectSeq(visit(fn, "MemberExpression"), LAMBDA v :
                                 /\ isIdentifier(v.node.object)
                                 /\ v.node.object.name = firstParam.name
                                 /\ isIdentifier(v.node.property)
                                 /\ ~v.node.computed),
                             LAMBDA v : v.node.property.name))
             ELSE <<>>

PropUsage(componentName, propName, isUsedInComponent, isPassedToChild, location) ==
    [componentName |-> componentName, propName |-> propName,
     isUsedInComponent |-> isUsedInComponent, isPassedToChild |-> isPassedToChild,
     location |-> location]

isJSXAncestor(a) == a.type \in {"JSXElement", "JSXAttribute", "JSXSpreadAttribute"}

\* the Identifier visitor of analyzePropUsage: what one identifier named as
\* the prop sets; role says which child of its parent the identifier is
identifierPassesProp(v) ==
    /\ ~(v.parent.type = "ObjectProperty" /\ v.node.role = "key")
    /\ \/ v.parent.type = "JSXAttribute"
       \/ /\ v.parent.type = "JSXExpressionContainer"
          /\ Len(v.ancestors) >= 2 /\ v.ancestors[2].type = "JSXAttribute"
       \/ v.parent.type = "JSXSpreadAttribute"

identifierUsesProp(v) ==
    /\ ~(v.parent.type = "ObjectProperty" /\ v.node.role = "key")
    /\ ~identifierPassesProp(v)
    /\ LET jsxAncestor == findParent(v, isJSXAncestor)
       IN  /\ jsxAncestor = <<>> \/ jsxAncestor.type \notin {"JSXAttribute", "JSXSpreadAttribute"}
           /\ v.parent.type # "ObjectProperty" \/ v.node.role = "value"

analyzePropUsage(fn, propName, componentName) ==
    LET location == getNodeLocation(fn.loc)
    IN  IF startsWith(propName, <<".",".",".">>)
        THEN LET restName == SubSeq(propName, 4, Len(propName))
             IN  PropUsage(componentName, restName \o <<" ","(","s","p","r","e","a","d",")">>, FALSE,
                           some(visit(fn, "JSXSpreadAttribute"), LAMBDA v :
                                   isIdentifier(v.node.argument) /\ v.node.argument.name = restName),
                           location)
        ELSE LET named == SelectSeq(visit(fn, "Identifier"), LAMBDA v : v.node.name = propName)
                 firstParam == fn.params[1]
                 members == IF Len(fn.params) > 0 /\ isIdentifier(firstParam)
                            THEN SelectSeq(visit(fn, "MemberExpression"), LAMBDA v :
                                     /\ isIdentifier(v.node.object)
                                     /\ v.node.object.name = firstParam.name
                                     /\ isIdentifier(v.node.property)
                                     /\ v.node.property.name = propName)
                            ELSE <<>>
                 memberPasses(v) ==
                     /\ v.parent.type = "JSXExpressionContainer"
                     /\ findParent(v, LAMBDA a : a.type = "JSXAttribute") # <<>>
             IN  PropUsage(componentName, propName,
                           some(named, identifierUsesProp)
                               \/ some(members, LAMBDA v : ~memberPasses(v)),
                           some(named, identifierPassesProp) \/ some(members, memberPasses),
                           location)

\* Map.prototype.set on a map kept as its entries in insertion order
mapSet(entries, key, value) ==
    IF \E k \in DOMAIN entries : entries[k].key = key
    THEN [k \in DOMAIN entries |->
             IF entries[k].key = key THEN [key |-> key, value |-> value] ELSE entries[k]]
    ELSE Append(entries, [key |-> key, value |-> value])

\* analyzeComponent: the componentProps map after the component
analyzeComponent(fn, componentProps_) ==
    LET componentName == getComponentName(fn)
    IN  IF componentName = <<>> THEN componentProps_
        ELSE mapSet(componentProps_, componentName,
                    map(extractProps(fn), LAMBDA propName :
                            analyzePropUsage(fn, propName, componentName)))

\* detectDrilledProps with the handling components left in the order of the map
detectDrilledProps_DeclarationOrder(componentProps_) ==
    LET allUsages == flatMap(componentProps_, LAMBDA entry : entry.value)
        propNames == unique(map(allUsages, LAMBDA u : u.propName))
    IN  flatMap(propNames, LAMBDA propName :
            LET usages == SelectSeq(allUsages, LAMBDA u : u.propName = propName)
                drillers == SelectSeq(usages, LAMBDA u :
                                ~u.isUsedInComponent /\ u.isPassedToChild)
                allComponents == SelectSeq(usages, LAMBDA u :
                                     u.isUsedInComponent \/ u.isPassedToChild)
            IN  IF includes(propName, <<"s","p","r","e","a","d">>) THEN <<>>
                ELSE IF Len(drillers) >= 1 /\ Len(allComponents) >= 2
                THEN << [key |-> propName, value |-> allComponents] >>
                ELSE <<>>)

\* detectDrilledProps: the entries of the drilledProps map in insertion order
detectDrilledProps(componentProps_) ==
    LET allUsages == flatMap(componentProps_, LAMBDA entry : entry.value)
        propNames == unique(map(allUsages, LAMBDA u : u.propName))
    IN  flatMap(propNames, LAMBDA propName :
            LET usages == SelectSeq(allUsages, LAMBDA u : u.propName = propName)
                drillers == SelectSeq(usages, LAMBDA u :
                                ~u.isUsedInComponent /\ u.isPassedToChild)
                consumers == SelectSeq(usages, LAMBDA u : u.isUsedInComponent)
                allComponents == drillers \o consumers
            IN  IF includes(propName, <<"s","p","r","e","a","d">>) THEN <<>>
                ELSE IF Len(drillers) >= 1 /\ Len(allComponents) >= 2
                THEN << [key |-> propName, value |-> allComponents] >>
                ELSE <<>>)

\* the separator of the chain description: space, U+2192, space
chainSeparator == << " ", "->", " " >>

\* the issues detectPropDrillingRule.check creates once the traversal is over
propDrillingIssues(componentProps_, filename) ==
    flatMap(detectDrilledProps(componentProps_), LAMBDA entry :
        LET propName == entry.key
            components == entry.value
            firstDriller == find(components, LAMBDA c :
                                ~c.isUsedInComponent /\ c.isPassedToChild)
            chainDescription == join(map(components, LAMBDA c : c.componentName),
                                     chainSeparator)
            severity == IF Len(components) >= 3 THEN "error" ELSE "warning"
            severityText == IF severity = "error" THEN <<"d","e","e","p"," ","p","r","o","p"," ","d","r","i","l","l","i","n","g">>
                            ELSE <<"p","r","o","p"," ","d","r","i","l","l","i","n","g">>
        IN  IF firstDriller = <<>> THEN <<>>
            ELSE << Issue("detect-prop-drilling", severity,
                          Text("Prop \"{prop}\" is drilled through {n} components ({chain}) without being used in intermediate components - {text} detected",
                               <<propName, String(Len(components)), chainDescription,
                                 severityText>>),
                          filename, firstDriller.location,
                          IF severity = "error"
                          THEN Text("Critical: Use React Context or component composition to eliminate this deep prop drilling for \"{prop}\"",
                                    <<propName>>)
                          ELSE Text("Consider using React Context for \"{prop}\" or use component composition to avoid prop drilling",
                                    <<propName>>),
                          FALSE) >>)

---------------------------------------------------------------------------
(* Rule: state-vs-refs *)

\* the return statements of the component itself, by identity
componentReturns(fn) ==
    map(SelectSeq(visit(fn, "ReturnStatement"), LAMBDA v : getFunctionParent(v) = 0),
        LAMBDA v : v.node.ref)

isUsedInRender(stateName, fn) ==
    some(componentReturns(fn), LAMBDA ref :
        some(visitBelow(fn, ref, "Identifier"), LAMBDA v :
            v.node.name = stateName /\ ~v.node.binding))

nonRenderPatterns ==
    << <<"t","i","m","e","r","i","d">>, <<"t","i","m","e","r">>, <<"i","n","t","e","r","v","a","l","i","d">>, <<"i","n","t","e","r","v","a","l">>, <<"t","i","m","e","o","u","t">>, <<"t","i","m","e","o","u","t","i","d">>,
       <<"r","e","f">>, <<"e","l","e","m","e","n","t">>, <<"n","o","d","e">>, <<"d","o","m">>,
       <<"p","r","e","v">>, <<"p","r","e","v","i","o","u","s">>, <<"l","a","s","t">>, <<"o","l","d">>,
       <<"c","o","u","n","t">>, <<"c","o","u","n","t","e","r">>, <<"c","l","i","c","k","s">>, <<"i","n","d","e","x">>, <<"p","o","s","i","t","i","o","n">>,
       <<"m","o","u","n","t","e","d">>, <<"i","n","i","t","i","a","l","i","z","e","d">>, <<"s","e","t","u","p">>, <<"r","e","a","d","y">>,
       <<"t","i","m","e">>, <<"m","o","u","n","t","t","i","m","e">>, <<"r","e","n","d","e","r","c","o","u","n","t">> >>

hasNonRenderNamingPattern(stateName) ==
    LET lowerName == toLowerCase(stateName)
    IN  some(nonRenderPatterns, LAMBDA pattern :
            \/ includes(lowerName, pattern)
            \/ endsWith(lowerName, pattern)
            \/ startsWith(lowerName, pattern))

isHandlerName(name) == startsWith(name, <<"h","a","n","d","l","e">>) \/ startsWith(name, <<"o","n">>)

\* what the k-th step of the walk of getIdentifierContext returns, "" to go on
contextAt(ancestors, k) ==
    LET current == ancestors[k]
        functionsAbove == SelectSeq(SubSeq(ancestors, k + 1, Len(ancestors)), isFunction)
    IN  IF current.type = "CallExpression" /\ current.name = <<"u","s","e","E","f","f","e","c","t">> THEN "effect"
        ELSE IF /\ current.type \in {"FunctionExpression", "ArrowFunctionExpression"}
                /\ k < Len(ancestors)
                /\ ancestors[k + 1].type \in {"ObjectProperty", "ClassProperty",
                                              "VariableDeclarator"}
                /\ isHandlerName(ancestors[k + 1].name)
        THEN "handler"
        ELSE IF current.type = "ReturnStatement" /\ functionsAbove = <<>> THEN "render"
        ELSE ""

getIdentifierContext(v) ==
    LET decided == SelectSeq(indexes(v.ancestors), LAMBDA k : contextAt(v.ancestors, k) # "")
    IN  IF decided = <<>> THEN "other" ELSE contextAt(v.ancestors, decided[1])

getStateUsageContext(stateName, fn) ==
    LET usages == SelectSeq(visit(fn, "Identifier"), LAMBDA v :
                      v.node.name = stateName /\ ~v.node.binding)
        contexts == map(usages, getIdentifierContext)
    IN  [usageCount |-> Len(usages),
         onlyInNonRenderContexts |-> ~some(contexts, LAMBDA c : c = "render"),
         contexts |-> unique(contexts)]

\* shouldUseRef that does not ask for a usage
shouldUseRef_Unread(stateCall, fn) ==
    IF isUsedInRender(stateCall.name, fn) THEN FALSE
    ELSE IF hasNonRenderNamingPattern(stateCall.name) THEN TRUE
    ELSE getStateUsageContext(stateCall.name, fn).onlyInNonRenderContexts

shouldUseRef(stateCall, fn) ==
    IF isUsedInRender(stateCall.name, fn) THEN FALSE
    ELSE IF hasNonRenderNamingPattern(stateCall.name) THEN TRUE
    ELSE LET usageContext == getStateUsageContext(stateCall.name, fn)
         IN  usageContext.onlyInNonRenderContexts /\ usageContext.usageCount > 0

getPerformanceImpact(stateName, fn) ==
    LET lowerName == toLowerCase(stateName)
    IN  IF includes(lowerName, <<"t","i","m","e","r">>) \/ includes(lowerName, <<"i","n","t","e","r","v","a","l">>)
        THEN <<"T","i","m","e","r"," ","u","p","d","a","t","e","s"," ","c","a","u","s","e"," ","u","n","n","e","c","e","s","s","a","r","y"," ","c","o","m","p","o","n","e","n","t"," ","r","e","-","r","e","n","d","e","r","s"," ","o","n"," ","e","v","e","r","y"," ","t","i","c","k",".">>
        ELSE IF includes(lowerName, <<"c","o","u","n","t">>) /\ ~isUsedInRender(stateName, fn)
        THEN <<"C","o","u","n","t","e","r"," ","u","p","d","a","t","e","s"," ","t","r","i","g","g","e","r"," ","r","e","-","r","e","n","d","e","r","s"," ","w","i","t","h","o","u","t"," ","d","i","s","p","l","a","y","i","n","g"," ","t","h","e"," ","v","a","l","u","e",".">>
        ELSE IF includes(lowerName, <<"p","r","e","v">>) \/ includes(lowerName, <<"p","r","e","v","i","o","u","s">>)
        THEN <<"P","r","e","v","i","o","u","s"," ","v","a","l","u","e"," ","t","r","a","c","k","i","n","g"," ","f","o","r"," ","c","o","m","p","a","r","i","s","o","n","s"," ","d","o","e","s","n","'","t"," ","n","e","e","d"," ","t","o"," ","t","r","i","g","g","e","r"," ","r","e","-","r","e","n","d","e","r","s",".">>
        ELSE IF includes(lowerName, <<"r","e","f">>) \/ includes(lowerName, <<"e","l","e","m","e","n","t">>)
        THEN <<"D","O","M"," ","e","l","e","m","e","n","t"," ","r","e","f","e","r","e","n","c","e","s"," ","s","h","o","u","l","d"," ","u","s","e"," ","u","s","e","R","e","f"," ","t","o"," ","a","v","o","i","d"," ","r","e","-","r","e","n","d","e","r","s"," ","o","n"," ","a","s","s","i","g","n","m","e","n","t",".">>
        ELSE <<"T","h","i","s"," ","c","h","a","n","g","e"," ","p","r","e","v","e","n","t","s"," ","u","n","n","e","c","e","s","s","a","r","y"," ","r","e","-","r","e","n","d","e","r","s"," ","a","n","d"," ","i","m","p","r","o","v","e","s"," ","p","e","r","f","o","r","m","a","n","c","e",".">>

\* checkComponent of state-vs-refs
stateVsRefsCheckComponent(fn, filename) ==
    flatMap(findUseStateCalls(fn), LAMBDA stateCall :
        IF shouldUseRef(stateCall, fn)
        THEN << Issue("state-vs-refs", "warning",
                      Text("State '{name}' doesn't affect render output and should use useRef instead of useState",
                           <<stateCall.name>>),
                      filename, getNodeLocation(stateCall.loc),
                      Text("Use useRef instead of useState for '{name}' to prevent unnecessary re-renders. {impact}",
                           <<stateCall.name, getPerformanceImpact(stateCall.name, fn)>>),
                      TRUE) >>
        ELSE <<>>)

---------------------------------------------------------------------------
(* Rule: server-vs-client-state *)

\* states.filter by a test on the lower-cased name
statesNamed(stateCalls_, Test(_)) ==
    SelectSeq(stateCalls_, LAMBDA s : Test(toLowerCase(s.name)))

loadingStatesOf(stateCalls_) ==
    statesNamed(stateCalls_, LAMBDA name :
        \/ includes(name, <<"l","o","a","d","i","n","g">>) \/ includes(name, <<"f","e","t","c","h","i","n","g">>)
        \/ includes(name, <<"p","e","n","d","i","n","g">>) \/ name = <<"i","s","l","o","a","d","i","n","g">>)

errorStatesOf(stateCalls_) ==
    statesNamed(stateCalls_, LAMBDA name : includes(name, <<"e","r","r","o","r">>) \/ name = <<"i","s","e","r","r","o","r">>)

dataStatesOf(stateCalls_) ==
    statesNamed(stateCalls_, LAMBDA name :
        some(<< <<"d","a","t","a">>, <<"r","e","s","u","l","t">>, <<"r","e","s","p","o","n","s","e">>, <<"i","t","e","m","s">>, <<"u","s","e","r","s">>, <<"p","o","s","t","s">>, <<"p","r","o","d","u","c","t","s">>,
                <<"o","r","d","e","r","s">> >>,
             LAMBDA p : includes(name, p)))

FetchLocation(loc, method) ==
    [line |-> getNodeLocation(loc).line, column |-> getNodeLocation(loc).column,
     method |-> method]

httpMethods == << <<"g","e","t">>, <<"p","o","s","t">>, <<"p","u","t">>, <<"d","e","l","e","t","e">>, <<"p","a","t","c","h">>, <<"r","e","q","u","e","s","t">>, <<"q","u","e","r","y">> >>
httpClients == << <<"a","x","i","o","s">>, <<"h","t","t","p">>, <<"a","p","i">>, <<"c","l","i","e","n","t">>, << "$", "h", "t", "t", "p" >> >>
graphqlMethods == << <<"q","u","e","r","y">>, <<"m","u","t","a","t","e">>, <<"s","u","b","s","c","r","i","b","e">> >>
graphqlClients == << <<"c","l","i","e","n","t">>, <<"a","p","o","l","l","o">>, <<"g","r","a","p","h","q","l">> >>

\* what the visitors of findFetchCallsInEffect push for one visited node
fetchCallsAt(v) ==
    LET node == v.node
        byMember == isMemberExpression(node.callee) /\ isIdentifier(node.callee.property)
                    /\ isIdentifier(node.callee.object)
        method == node.callee.object.name \o <<".">> \o node.callee.property.name
    IN  IF isCallExpression(node)
        THEN (IF isIdentifier(node.callee) /\ node.callee.name = <<"f","e","t","c","h">>
              THEN << FetchLocation(v.loc, <<"f","e","t","c","h">>) >> ELSE <<>>)
             \o
             (IF /\ byMember
                 /\ some(httpMethods, LAMBDA m : m = node.callee.property.name)
                 /\ some(httpClients, LAMBDA c : c = node.callee.object.name)
              THEN << FetchLocation(v.loc, method) >> ELSE <<>>)
             \o
             (IF /\ byMember
                 /\ some(graphqlMethods, LAMBDA m : m = node.callee.property.name)
                 /\ some(graphqlClients, LAMBDA c :
                            c = toLowerCase(node.callee.object.name))
              THEN << FetchLocation(v.loc, method) >> ELSE <<>>)
        ELSE IF /\ node.type = "AwaitExpression"
                /\ isCallExpression(node.argument)
                /\ isIdentifier(node.argument.callee)
                /\ node.argument.callee.name = <<"f","e","t","c","h">>
        THEN << FetchLocation(v.loc, <<"f","e","t","c","h">>) >>
        ELSE <<>>

findFetchCallsInEffect(fn, effect) ==
    IF effect.callback = Undefined THEN <<>>
    ELSE flatMap(SelectSeq(fn.visited, LAMBDA v :
                     /\ v.node.type \in {"CallExpression", "AwaitExpression"}
                     /\ isBelow(v, callbackRef(effect.callback))),
                 fetchCallsAt)

\* isInsideUseEffect of the function parent of a visited node
isInsideUseEffect(v) ==
    LET parents == SelectSeq(indexes(v.ancestors), LAMBDA k : isFunction(v.ancestors[k]))
    IN  /\ parents # <<>>
        /\ \E m \in (parents[1] + 1)..Len(v.ancestors) :
              v.ancestors[m].type = "CallExpression" /\ v.ancestors[m].name = <<"u","s","e","E","f","f","e","c","t">>

findFetchCallsInComponent(fn) ==
    map(SelectSeq(visit(fn, "CallExpression"), LAMBDA v :
            /\ ~isInsideUseEffect(v)
            /\ isIdentifier(v.node.callee) /\ v.node.callee.name = <<"f","e","t","c","h">>),
        LAMBDA v : FetchLocation(v.loc, <<"f","e","t","c","h">>))

findSettersInEffect(fn, effect) ==
    map(SelectSeq(visitCallback(fn, effect, "CallExpression"), LAMBDA v :
            isIdentifier(v.node.callee) /\ isSetterName(v.node.callee.name)),
        LAMBDA v : v.node.callee.name)

\* findRelatedState: <<>> stands for null
findRelatedState(setters, states) ==
    LET relatedOf(setter) ==
            find(states, LAMBDA s :
                    \/ s.name = camelCaseStateName(setter)
                    \/ s.name = SubSeq(setter, 4, Len(setter)))
        matching == SelectSeq(setters, LAMBDA setter : relatedOf(setter) # <<>>)
    IN  IF matching = <<>> THEN <<>> ELSE relatedOf(matching[1])

clientPatterns ==
    << <<"f","o","r","m","d","a","t","a">>, <<"f","o","r","m">>, <<"i","n","p","u","t">>, <<"s","e","l","e","c","t","e","d">>, <<"i","s","o","p","e","n">>, <<"i","s","c","l","o","s","e","d">>, <<"i","s","v","i","s","i","b","l","e">>,
       <<"i","s","h","i","d","d","e","n">>, <<"t","h","e","m","e">>, <<"m","o","d","a","l">>, <<"d","r","o","p","d","o","w","n">>, <<"t","a","b">>, <<"a","c","t","i","v","e">> >>

serverDataPatterns ==
    << <<"u","s","e","r","s">>, <<"p","o","s","t","s">>, <<"p","r","o","d","u","c","t","s">>, <<"i","t","e","m","s">>, <<"a","p","i","d","a","t","a">>, <<"r","e","s","u","l","t","s">>, <<"r","e","s","p","o","n","s","e">>,
       <<"o","r","d","e","r","s">>, <<"c","u","s","t","o","m","e","r","s">>, <<"a","r","t","i","c","l","e","s">>, <<"c","o","m","m","e","n","t","s">>, <<"p","r","o","f","i","l","e">>, <<"s","e","t","t","i","n","g","s">>, <<"c","o","n","f","i","g">>,
       <<"a","p","i","r","e","s","p","o","n","s","e">> >>

isFetchRelatedInitialValue(stateCall) ==
    LET name == toLowerCase(stateCall.name)
    IN  IF some(clientPatterns, LAMBDA pattern : includes(name, pattern)) THEN FALSE
        ELSE some(serverDataPatterns, LAMBDA pattern :
                 name = pattern \/ startsWith(name, pattern) \/ endsWith(name, pattern))

\* a ServerStatePattern; an absent name is the empty string, an absent
\* location is Undefined
ServerStatePattern(dataState, loadingState, errorState, fetchLocation) ==
    [dataState |-> dataState, loadingState |-> loadingState,
     errorState |-> errorState, fetchLocation |-> fetchLocation]

\* state?.name
optionalName(state) == IF state = <<>> THEN <<>> ELSE state.name

\* "dataStates.length > 0 || (loadingStates.length > 0 && errorStates.length > 0)"
\* taken as true whatever the component declares: not what the source does
hasRelatedStates_Always(dataStates, loadingStates, errorStates) == TRUE

\* dataStates.length > 0 || (loadingStates.length > 0 && errorStates.length > 0)
hasRelatedStates(dataStates, loadingStates, errorStates) ==
    Len(dataStates) > 0 \/ (Len(loadingStates) > 0 /\ Len(errorStates) > 0)

identifyServerStatePatterns(useStateCalls, useEffectCalls, fn) ==
    LET loadingStates == loadingStatesOf(useStateCalls)
        errorStates == errorStatesOf(useStateCalls)
        dataStates == dataStatesOf(useStateCalls)
        fromEffects ==
            flatMap(useEffectCalls, LAMBDA effect :
                LET settersInEffect == findSettersInEffect(fn, effect)
                    relatedDataState == findRelatedState(settersInEffect, dataStates)
                    relatedLoadingState == findRelatedState(settersInEffect, loadingStates)
                    relatedErrorState == findRelatedState(settersInEffect, errorStates)
                IN  flatMap(findFetchCallsInEffect(fn, effect), LAMBDA fetchCall :
                        IF \/ relatedDataState # <<>>
                           \/ (relatedLoadingState # <<>> /\ relatedErrorState # <<>>)
                        THEN << ServerStatePattern(
                                    IF optionalName(relatedDataState) # <<>>
                                    THEN relatedDataState.name ELSE <<"d","a","t","a">>,
                                    optionalName(relatedLoadingState),
                                    optionalName(relatedErrorState),
                                    fetchCall) >>
                        ELSE <<>>))
        fetchCallsInComponent == findFetchCallsInComponent(fn)
        fromBody ==
            IF /\ Len(fetchCallsInComponent) > 0
               /\ hasRelatedStates(dataStates, loadingStates, errorStates)
            THEN << ServerStatePattern(
                        IF dataStates # <<>> /\ dataStates[1].name # <<>>
                        THEN dataStates[1].name ELSE <<"d","a","t","a">>,
                        IF loadingStates # <<>> THEN loadingStates[1].name ELSE <<>>,
                        IF errorStates # <<>> THEN errorStates[1].name ELSE <<>>,
                        fetchCallsInComponent[1]) >>
            ELSE <<>>
        fromNames ==
            flatMap(useStateCalls, LAMBDA stateCall :
                IF isFetchRelatedInitialValue(stateCall)
                THEN << ServerStatePattern(stateCall.name, <<>>, <<>>, Undefined) >>
                ELSE <<>>)
    IN  fromEffects \o fromBody \o fromNames

\* checkComponent of server-vs-client-state
serverVsClientCheckComponent(fn, filename) ==
    LET patterns == identifyServerStatePatterns(findUseStateCalls(fn),
                                                findUseEffectCalls(fn), fn)
    IN  map(patterns, LAMBDA pattern :
            LET location == IF pattern.fetchLocation # Undefined THEN pattern.fetchLocation
                            ELSE getNodeLocation(fn.loc)
                stateNames == join(SelectSeq(<<pattern.dataState, pattern.loadingState,
                                               pattern.errorState>>,
                                             LAMBDA name : name # <<>>),
                                   <<","," ">>)
            IN  Issue("server-vs-client-state", "warning",
                      Text("Server data ({names}) is managed with useState instead of a data fetching library",
                           <<stateNames>>),
                      filename, location,
                      Text("Consider using React Query, SWR, or RTK Query for server state management. These provide caching, deduplication, and automatic refetching.", <<>>),
                      FALSE))

---------------------------------------------------------------------------
(* The rules registry and Rule.check *)

rules ==
    << "group-related-state", "avoid-state-contradictions", "avoid-redundant-state",
       "avoid-deeply-nested-state", "avoid-state-duplication",
       "prefer-explicit-transitions", "detect-state-in-useeffect",
       "detect-prop-drilling", "state-vs-refs", "server-vs-client-state" >>

\* "const issues: Issue[] = []" at the start of each check: the array the
\* rule works on, whatever an earlier check left behind
freshIssues_Kept(left) == left

freshIssues(left) == <<>>

\* "const componentProps = new Map()" at the start of detectPropDrillingRule.check
freshComponentProps(left) == <<>>

\* what checkComponent of a rule pushes for one component
checkComponent(rule, fn, filename, context) ==
    CASE rule = "group-related-state" ->
            groupRelatedCheckComponent(findUseStateCalls(fn), filename)
      [] rule = "avoid-state-contradictions" ->
            contradictionsCheckComponent(findUseStateCalls(fn), filename)
      [] rule = "avoid-redundant-state" -> redundantCheckComponent(fn, filename)
      [] rule = "avoid-deeply-nested-state" ->
            nestedCheckComponent(findUseStateCalls(fn), filename)
      [] rule = "avoid-state-duplication" -> duplicationCheckComponent(fn, filename)
      [] rule = "prefer-explicit-transitions" ->
            explicitTransitionsCheckComponent(fn, filename, context)
      [] rule = "detect-state-in-useeffect" -> stateInEffectCheckComponent(fn, filename)
      [] rule = "detect-prop-drilling" -> <<>>
      [] rule = "state-vs-refs" -> stateVsRefsCheckComponent(fn, filename)
      [] rule = "server-vs-client-state" -> serverVsClientCheckComponent(fn, filename)

\* the visitor of a check called with one function of the tree
visitIssues(rule, fn, filename, context, local) ==
    IF isReactComponent(fn) THEN local \o checkComponent(rule, fn, filename, context)
    ELSE local

visitComponentProps(rule, fn, local) ==
    IF rule = "detect-prop-drilling" /\ isReactComponent(fn)
    THEN analyzeComponent(fn, local)
    ELSE local

\* what a check pushes once its traversal is over
afterTraversal(rule, filename, local) ==
    IF rule = "detect-prop-drilling" THEN propDrillingIssues(local, filename) ELSE <<>>

RECURSIVE componentPropsFrom(_, _, _)
componentPropsFrom(tree, i, local) ==
    IF i > Len(tree) THEN local
    ELSE componentPropsFrom(tree, i + 1, visitComponentProps("detect-prop-drilling", tree[i], local))

\* Rule.check(ast, filename, context) of the rule named
check(rule, tree, filename, context) ==
    flatMap(tree, LAMBDA fn : visitIssues(rule, fn, filename, context, <<>>))
    \o afterTraversal(rule, filename, componentPropsFrom(tree, 1, <<>>))

\* the components a traversal of the tree counts
componentsIn(tree) == Len(SelectSeq(tree, isReactComponent))

---------------------------------------------------------------------------
(* Parsed files the analyzer is given.  Each function lists, in traversal   *)
(* order, the nodes below it that some visitor of a rule looks at; lines    *)
(* count from 1 and columns from 0, as the parser reports them.             *)

\* The setter React convention gives a state name: set + Name
setterOf(name) == <<"s","e","t">> \o capitalize(name)

\* The useState call of the k-th declaration of a component written one
\* declaration per line, two spaces in: "  const [x, setX] = useState(...)"
StateCallLoc(k, name) == Loc(k + 1, 2 + 7 + Len(name) + 2 + Len(setterOf(name)) + 4)

\* the body block of the traversed function
Body == Ancestor("BlockStatement", 1, <<>>)

IdentifierNode(name, binding, role) ==
    [type |-> "Identifier", name |-> name, binding |-> binding, role |-> role]

Parent(type) == [type |-> type]

\* "  const [name, setName] = useState(init)" on a line of the body
useStateDeclaration(name, init, line) ==
    LET chain == << Ancestor("VariableDeclarator", 10 * line, <<>>),
                    Ancestor("VariableDeclaration", 10 * line + 1, <<>>), Body >>
        pattern == <<Ancestor("ArrayPattern", 10 * line + 2, <<>>)>> \o chain
    IN  << Visited(IdentifierNode(name, TRUE, "element"), Parent("ArrayPattern"),
                   Loc(line, 9), pattern),
           Visited(IdentifierNode(setterOf(name), TRUE, "element"), Parent("ArrayPattern"),
                   Loc(line, 9 + Len(name) + 2), pattern),
           Visited(CallExpression(Identifier(<<"u","s","e","S","t","a","t","e">>),
                                  IF init = Undefined THEN <<>> ELSE <<init>>),
                   VariableDeclarator(ArrayPattern(<<Identifier(name),
                                                     Identifier(setterOf(name))>>)),
                   StateCallLoc(line - 1, name), chain) >>

\* "  return <tag>...</tag>;" on a line of the body: the statement and the element
returnChain(line) == << Ancestor("ReturnStatement", 10 * line, <<>>), Body >>

returnElement(line) ==
    << Visited([type |-> "ReturnStatement", ref |-> 10 * line], Parent("BlockStatement"),
               Loc(line, 2), <<Body>>),
       Visited([type |-> "JSXElement"], Parent("ReturnStatement"),
               Loc(line, 9), returnChain(line)) >>

\* "{name}" among the children of the returned element
renderedChild(name, line, column) ==
    << Visited(IdentifierNode(name, FALSE, "expression"), Parent("JSXExpressionContainer"),
               Loc(line, column),
               << Ancestor("JSXExpressionContainer", 10 * line + 1, <<>>),
                  Ancestor("JSXElement", 10 * line + 2, <<>>) >> \o returnChain(line)) >>

\* "<Child name={object.name} />" returned on a line: the member expression
\* and its two identifiers
forwardedMember(object, name, line, column) ==
    LET chain == << Ancestor("JSXExpressionContainer", 10 * line + 1, <<>>),
                    Ancestor("JSXAttribute", 10 * line + 3, <<>>),
                    Ancestor("JSXOpeningElement", 10 * line + 4, <<>>),
                    Ancestor("JSXElement", 10 * line + 2, <<>>) >> \o returnChain(line)
        member == <<Ancestor("MemberExpression", 10 * line + 5, <<>>)>> \o chain
    IN  << Visited(MemberExpression(Identifier(object), Identifier(name)),
                   Parent("JSXExpressionContainer"), Loc(line, column), chain),
           Visited(IdentifierNode(object, FALSE, "object"), Parent("MemberExpression"),
                   Loc(line, column), member),
           Visited(IdentifierNode(name, FALSE, "property"), Parent("MemberExpression"),
                   Loc(line, column + Len(object) + 1), member) >>

\* "{ name }" in the destructured first parameter: key and value of the property
destructuredProp(name, line, column) ==
    LET chain == << Ancestor("ObjectProperty", 1000 + column, name),
                    Ancestor("ObjectPattern", 1000, <<>>) >>
    IN  << Visited(IdentifierNode(name, FALSE, "key"), Parent("ObjectProperty"),
                   Loc(line, column), chain),
           Visited(IdentifierNode(name, TRUE, "value"), Parent("ObjectProperty"),
                   Loc(line, column), chain) >>

shorthand(name) == ObjectProperty(Identifier(name), Identifier(name))

(* Form.tsx
   1 export function BadUserForm() {
   2   const [firstName, setFirstName] = useState('');
   3   const [lastName, setLastName] = useState('');
   4   const [email, setEmail] = useState('');
   5   return <form>{firstName}{lastName}{email}</form>;
   6 }
   7 function formatName(first) { return first; }                             *)
BadUserForm ==
    Function("FunctionDeclaration", Identifier(<<"B","a","d","U","s","e","r","F","o","r","m">>), Parent("ExportNamedDeclaration"),
             <<>>, Loc(1, 7),
             useStateDeclaration(<<"f","i","r","s","t","N","a","m","e">>, StringLiteral(<<>>), 2)
             \o useStateDeclaration(<<"l","a","s","t","N","a","m","e">>, StringLiteral(<<>>), 3)
             \o useStateDeclaration(<<"e","m","a","i","l">>, StringLiteral(<<>>), 4)
             \o returnElement(5)
             \o renderedChild(<<"f","i","r","s","t","N","a","m","e">>, 5, 16)
             \o renderedChild(<<"l","a","s","t","N","a","m","e">>, 5, 27)
             \o renderedChild(<<"e","m","a","i","l">>, 5, 37))

formatName ==
    Function("FunctionDeclaration", Identifier(<<"f","o","r","m","a","t","N","a","m","e">>), Program,
             <<Identifier(<<"f","i","r","s","t">>)>>, Loc(7, 0),
             << Visited([type |-> "ReturnStatement", ref |-> 70], Parent("BlockStatement"),
                        Loc(7, 29), <<Body>>) >>)

FormTree == << BadUserForm, formatName >>

\* "{object.name}" among the children of the returned element
renderedMember(object, name, line, column) ==
    LET chain == << Ancestor("JSXExpressionContainer", 10 * line + 1, <<>>),
                    Ancestor("JSXElement", 10 * line + 2, <<>>) >> \o returnChain(line)
        member == <<Ancestor("MemberExpression", 10 * line + 5, <<>>)>> \o chain
    IN  << Visited(MemberExpression(Identifier(object), Identifier(name)),
                   Parent("JSXExpressionContainer"), Loc(line, column), chain),
           Visited(IdentifierNode(object, FALSE, "object"), Parent("MemberExpression"),
                   Loc(line, column), member) >>

\* "  useEffect(() => { ... }, [dep]);" on a line of the body: the call, and
\* the chain of the statements of the callback
effectCallback(line) == ArrowFunctionExpression(10 * line, NullLiteral)

effectChain(line) ==
    << Ancestor("BlockStatement", 10 * line + 2, <<>>),
       Ancestor("ArrowFunctionExpression", 10 * line, <<>>),
       Ancestor("CallExpression", 10 * line + 3, <<"u","s","e","E","f","f","e","c","t">>),
       Ancestor("ExpressionStatement", 10 * line + 1, <<>>), Body >>

useEffectCall(line, dep) ==
    << Visited(CallExpression(Identifier(<<"u","s","e","E","f","f","e","c","t">>),
                              <<effectCallback(line), ArrayExpression(<<Identifier(dep)>>)>>),
               Parent("ExpressionStatement"), Loc(line, 2),
               << Ancestor("ExpressionStatement", 10 * line + 1, <<>>), Body >>) >>

\* "    setter(argument);" as a statement of a block with the chain given
setterStatement(setter, argument, line, chain) ==
    << Visited(CallExpression(Identifier(setter), <<argument>>),
               Parent("ExpressionStatement"), Loc(line, 4),
               <<Ancestor("ExpressionStatement", 10 * line + 1, <<>>)>> \o chain) >>

(* Fetcher.tsx
   1 const DataFetcher = ({ url }) => {
   2   const [data, setData] = useState(null);
   3   const [isLoading, setIsLoading] = useState(false);
   4   const [hasError, setHasError] = useState(false);
   5   useEffect(() => {
   6     setIsLoading(true);
   7     fetch(url).then((res) => setData(res));
   8   }, [url]);
   9   return <div>{isLoading}{data}</div>;
  10 };                                                                       *)
DataFetcher ==
    LET then == << Ancestor("CallExpression", 72, <<>>),
                   Ancestor("ExpressionStatement", 71, <<>>) >> \o effectChain(5)
        fetchUrl == CallExpression(Identifier(<<"f","e","t","c","h">>), <<Identifier(<<"u","r","l">>)>>)
        setDataRes == CallExpression(Identifier(<<"s","e","t","D","a","t","a">>), <<Identifier(<<"r","e","s">>)>>)
    IN  Function("ArrowFunctionExpression", NullLiteral,
                 VariableDeclarator(Identifier(<<"D","a","t","a","F","e","t","c","h","e","r">>)),
                 <<ObjectPattern(<<shorthand(<<"u","r","l">>)>>)>>, Loc(1, 20),
                 destructuredProp(<<"u","r","l">>, 1, 23)
                 \o useStateDeclaration(<<"d","a","t","a">>, NullLiteral, 2)
                 \o useStateDeclaration(<<"i","s","L","o","a","d","i","n","g">>, BooleanLiteral(FALSE), 3)
                 \o useStateDeclaration(<<"h","a","s","E","r","r","o","r">>, BooleanLiteral(FALSE), 4)
                 \o useEffectCall(5, <<"u","r","l">>)
                 \o setterStatement(<<"s","e","t","I","s","L","o","a","d","i","n","g">>, BooleanLiteral(TRUE), 6, effectChain(5))
                 \o << Visited(CallExpression(MemberExpression(fetchUrl, Identifier(<<"t","h","e","n">>)),
                                              <<ArrowFunctionExpression(70, setDataRes)>>),
                               Parent("ExpressionStatement"), Loc(7, 4), Tail(then)),
                       Visited(MemberExpression(fetchUrl, Identifier(<<"t","h","e","n">>)),
                               Parent("CallExpression"), Loc(7, 4), then),
                       Visited(fetchUrl, Parent("MemberExpression"), Loc(7, 4),
                               <<Ancestor("MemberExpression", 73, <<>>)>> \o then),
                       Visited(IdentifierNode(<<"u","r","l">>, FALSE, "argument"),
                               Parent("CallExpression"), Loc(7, 10),
                               << Ancestor("CallExpression", 74, <<"f","e","t","c","h">>),
                                  Ancestor("MemberExpression", 73, <<>>) >> \o then),
                       Visited(setDataRes, Parent("ArrowFunctionExpression"), Loc(7, 30),
                               <<Ancestor("ArrowFunctionExpression", 70, <<>>)>> \o then),
                       Visited(IdentifierNode(<<"u","r","l">>, FALSE, "element"),
                               Parent("ArrayExpression"), Loc(8, 6),
                               << Ancestor("ArrayExpression", 80, <<>>),
                                  Ancestor("CallExpression", 53, <<"u","s","e","E","f","f","e","c","t">>),
                                  Ancestor("ExpressionStatement", 51, <<>>), Body >>) >>
                 \o returnElement(9)
                 \o renderedChild(<<"i","s","L","o","a","d","i","n","g">>, 9, 15)
                 \o renderedChild(<<"d","a","t","a">>, 9, 26))

FetcherTree == << DataFetcher >>

(* Drill.tsx
   1 function Level1(props) {
   2   return <Level2 user={props.user} />;
   3 }
   4 function Level2(props) {
   5   return <Level3 user={props.user} />;
   6 }
   7 function Level3({ user, setTotal }) {
   8   useEffect(() => {
   9     setTotal(user.items.length + 1);
  10   }, [user]);
  11   return <div>{user.name}</div>;
  12 }                                                                        *)
Level1 ==
    Function("FunctionDeclaration", Identifier(<<"L","e","v","e","l","1">>), Program,
             <<Identifier(<<"p","r","o","p","s">>)>>, Loc(1, 0),
             returnElement(2) \o forwardedMember(<<"p","r","o","p","s">>, <<"u","s","e","r">>, 2, 23))

Level2 ==
    Function("FunctionDeclaration", Identifier(<<"L","e","v","e","l","2">>), Program,
             <<Identifier(<<"p","r","o","p","s">>)>>, Loc(4, 0),
             returnElement(5) \o forwardedMember(<<"p","r","o","p","s">>, <<"u","s","e","r">>, 5, 23))

Level3 ==
    LET userItems == MemberExpression(Identifier(<<"u","s","e","r">>), Identifier(<<"i","t","e","m","s">>))
        total == BinaryExpression("+", MemberExpression(userItems, Identifier(<<"l","e","n","g","t","h">>)),
                                  NumericLiteral(1))
        argument == << Ancestor("BinaryExpression", 92, <<>>),
                       Ancestor("CallExpression", 93, <<"s","e","t","T","o","t","a","l">>),
                       Ancestor("ExpressionStatement", 91, <<>>) >> \o effectChain(8)
    IN  Function("FunctionDeclaration", Identifier(<<"L","e","v","e","l","3">>), Program,
                 <<ObjectPattern(<<shorthand(<<"u","s","e","r">>), shorthand(<<"s","e","t","T","o","t","a","l">>)>>)>>, Loc(7, 0),
                 destructuredProp(<<"u","s","e","r">>, 7, 18)
                 \o destructuredProp(<<"s","e","t","T","o","t","a","l">>, 7, 24)
                 \o useEffectCall(8, <<"u","s","e","r">>)
                 \o setterStatement(<<"s","e","t","T","o","t","a","l">>, total, 9, effectChain(8))
                 \o << Visited(IdentifierNode(<<"s","e","t","T","o","t","a","l">>, FALSE, "callee"),
                               Parent("CallExpression"), Loc(9, 4), Tail(argument)),
                       Visited(MemberExpression(userItems, Identifier(<<"l","e","n","g","t","h">>)),
                               Parent("BinaryExpression"), Loc(9, 13), argument),
                       Visited(userItems, Parent("MemberExpression"), Loc(9, 13),
                               <<Ancestor("MemberExpression", 94, <<>>)>> \o argument),
                       Visited(IdentifierNode(<<"u","s","e","r">>, FALSE, "object"),
                               Parent("MemberExpression"), Loc(9, 13),
                               << Ancestor("MemberExpression", 95, <<>>),
                                  Ancestor("MemberExpression", 94, <<>>) >> \o argument),
                       Visited(IdentifierNode(<<"u","s","e","r">>, FALSE, "element"),
                               Parent("ArrayExpression"), Loc(10, 6),
                               << Ancestor("ArrayExpression", 100, <<>>),
                                  Ancestor("CallExpression", 83, <<"u","s","e","E","f","f","e","c","t">>),
                                  Ancestor("ExpressionStatement", 81, <<>>), Body >>) >>
                 \o returnElement(11)
                 \o renderedMember(<<"u","s","e","r">>, <<"n","a","m","e">>, 11, 15))

DrillTree == << Level1, Level2, Level3 >>

(* Big.tsx
   1 function Big({ initialTab }) {
   2   const [items, setItems] = useState([]);
   3   const [itemCount, setItemCount] = useState(0);
   4   const [tab, setTab] = useState(initialTab);
   5   const [timerId, setTimerId] = useState(null);
   6   const [config, setConfig] = useState({ a: { presentation: { c: 1 } } });
   7   const handleAdd = (item) => {
   8     setItems((prev) => prev.concat(item));
   9     setItemCount(itemCount + 1);
  10   };
  11   return <ul onClick={handleAdd}>{items}{itemCount}{tab}</ul>;
  12 }                                                                        *)
Big ==
    LET handler == << Ancestor("BlockStatement", 72, <<>>),
                      Ancestor("ArrowFunctionExpression", 70, <<>>),
                      Ancestor("VariableDeclarator", 71, <<"h","a","n","d","l","e","A","d","d">>),
                      Ancestor("VariableDeclaration", 73, <<>>), Body >>
        nested == ObjectExpression(<< ObjectProperty(Identifier(<<"a">>),
                      ObjectExpression(<< ObjectProperty(Identifier(<<"p","r","e","s","e","n","t","a","t","i","o","n">>),
                          ObjectExpression(<< ObjectProperty(Identifier(<<"c">>),
                              NumericLiteral(1)) >>)) >>)) >>)
        concat == CallExpression(MemberExpression(Identifier(<<"p","r","e","v">>), Identifier(<<"c","o","n","c","a","t">>)),
                                 <<Identifier(<<"i","t","e","m">>)>>)
        updater == << Ancestor("ArrowFunctionExpression", 80, <<>>),
                      Ancestor("CallExpression", 82, <<"s","e","t","I","t","e","m","s">>),
                      Ancestor("ExpressionStatement", 81, <<>>) >> \o handler
        increment == BinaryExpression("+", Identifier(<<"i","t","e","m","C","o","u","n","t">>), NumericLiteral(1))
    IN  Function("FunctionDeclaration", Identifier(<<"B","i","g">>), Program,
                 <<ObjectPattern(<<shorthand(<<"i","n","i","t","i","a","l","T","a","b">>)>>)>>, Loc(1, 0),
                 destructuredProp(<<"i","n","i","t","i","a","l","T","a","b">>, 1, 15)
                 \o useStateDeclaration(<<"i","t","e","m","s">>, ArrayExpression(<<>>), 2)
                 \o useStateDeclaration(<<"i","t","e","m","C","o","u","n","t">>, NumericLiteral(0), 3)
                 \o useStateDeclaration(<<"t","a","b">>, Identifier(<<"i","n","i","t","i","a","l","T","a","b">>), 4)
                 \o << Visited(IdentifierNode(<<"i","n","i","t","i","a","l","T","a","b">>, FALSE, "argument"),
                               Parent("CallExpression"), Loc(4, 34),
                               << Ancestor("CallExpression", 43, <<"u","s","e","S","t","a","t","e">>),
                                  Ancestor("VariableDeclarator", 40, <<>>),
                                  Ancestor("VariableDeclaration", 41, <<>>), Body >>) >>
                 \o useStateDeclaration(<<"t","i","m","e","r","I","d">>, NullLiteral, 5)
                 \o useStateDeclaration(<<"c","o","n","f","i","g">>, nested, 6)
                 \o setterStatement(<<"s","e","t","I","t","e","m","s">>, ArrowFunctionExpression(80, concat), 8, handler)
                 \o << Visited(concat, Parent("ArrowFunctionExpression"), Loc(8, 24), updater),
                       Visited(MemberExpression(Identifier(<<"p","r","e","v">>), Identifier(<<"c","o","n","c","a","t">>)),
                               Parent("CallExpression"), Loc(8, 24),
                               <<Ancestor("CallExpression", 83, <<>>)>> \o updater) >>
                 \o setterStatement(<<"s","e","t","I","t","e","m","C","o","u","n","t">>, increment, 9, handler)
                 \o << Visited(IdentifierNode(<<"i","t","e","m","C","o","u","n","t">>, FALSE, "left"),
                               Parent("BinaryExpression"), Loc(9, 17),
                               << Ancestor("BinaryExpression", 92, <<>>),
                                  Ancestor("CallExpression", 93, <<"s","e","t","I","t","e","m","C","o","u","n","t">>),
                                  Ancestor("ExpressionStatement", 91, <<>>) >> \o handler) >>
                 \o returnElement(11)
                 \o renderedChild(<<"i","t","e","m","s">>, 11, 34)
                 \o renderedChild(<<"i","t","e","m","C","o","u","n","t">>, 11, 41)
                 \o renderedChild(<<"t","a","b">>, 11, 52))

BigTree == << Big >>

(* Default.tsx
   1 export default () => <main>hello</main>;
   2 const renderRow = () => <li />;
   3 function Pinger() {
   4   fetch("/ping");
   5   return <p />;
   6 }                                                                        *)
DefaultExport ==
    Function("ArrowFunctionExpression", NullLiteral, ExportDefaultDeclaration,
             <<>>, Loc(1, 15),
             << Visited([type |-> "JSXElement"], Parent("ArrowFunctionExpression"),
                        Loc(1, 21), <<>>) >>)

renderRow ==
    Function("ArrowFunctionExpression", NullLiteral,
             VariableDeclarator(Identifier(<<"r","e","n","d","e","r","R","o","w">>)),
             <<>>, Loc(2, 18),
             << Visited([type |-> "JSXElement"], Parent("ArrowFunctionExpression"),
                        Loc(2, 24), <<>>) >>)

Pinger ==
    Function("FunctionDeclaration", Identifier(<<"P","i","n","g","e","r">>), Program, <<>>, Loc(3, 0),
             << Visited(CallExpression(Identifier(<<"f","e","t","c","h">>), <<StringLiteral(<<"/","p","i","n","g">>)>>),
                        Parent("ExpressionStatement"), Loc(4, 2),
                        << Ancestor("ExpressionStatement", 41, <<>>), Body >>) >>
             \o returnElement(5))

DefaultTree == << DefaultExport, renderRow, Pinger >>

\* A file of the project: the path the glob returns, whether readFile gives
\* its content, whether the content parses, and the tree parse returns
SourceFile(name, readable, parses, tree) ==
    [name |-> name, readable |-> readable, parses |-> parses, tree |-> tree]

ProjectFiles ==
    << SourceFile("/project/src/Form.tsx", TRUE, TRUE, FormTree),
       SourceFile("/project/src/Fetcher.tsx", TRUE, TRUE, FetcherTree),
       SourceFile("/project/src/Drill.tsx", TRUE, TRUE, DrillTree),
       SourceFile("/project/src/Big.tsx", TRUE, TRUE, BigTree),
       SourceFile("/project/src/Default.tsx", TRUE, TRUE, DefaultTree),
       SourceFile("/project/src/Locked.tsx", FALSE, TRUE, <<>>),
       SourceFile("/project/src/Invalid.tsx", TRUE, FALSE, <<>>) >>

\* the file behind a path
fileAt(name) == find(ProjectFiles, LAMBDA f : f.name = name)

\* the longest file list the glob returns
MaxFiles == 2

\* All sequences without repetition of 0..n elements of S
RECURSIVE Arrangements(_, _)
Arrangements(S, n) ==
    IF n = 0 THEN {<<>>}
    ELSE LET shorter == Arrangements(S, n - 1)
         IN  shorter \cup {Append(a, x) : a \in {b \in shorter : Len(b) = n - 1},
                                          x \in S}

Injective(seq) == \A i, j \in DOMAIN seq : i # j => seq[i] # seq[j]

FileLists ==
    {list \in Arrangements({ProjectFiles[k].name : k \in DOMAIN ProjectFiles}, MaxFiles) :
        Injective(list)}

\* what detectProjectContext returns
ProjectContexts == {ProjectContext(a, b) : a, b \in BOOLEAN}

\* what a caller of Rule.check passes as context
RuleContexts == ProjectContexts \cup {Undefined}
(* Inputs of the rule functions *)

MaxGroupStates == 4
MaxContraStates == 3
MaxNestDepth == 5

TestFile == "test.tsx"

GroupNames ==
    { <<"f","i","r","s","t","N","a","m","e">>, <<"l","a","s","t","N","a","m","e">>, <<"e","m","a","i","l">>, <<"p","h","o","n","e">>, <<"p","r","o","d","u","c","t","I","d">>, <<"p","r","o","d","u","c","t","N","a","m","e">>,
      <<"i","s","L","o","a","d","i","n","g">>, <<"i","s","O","p","e","n">>, <<"e","r","r","o","r">>, <<"c","o","u","n","t">> }

GroupInputs ==
    { [k \in DOMAIN names |->
          StateCall(names[k], setterOf(names[k]), StringLiteral(<<>>),
                    StateCallLoc(k, names[k]))] :
      names \in {a \in Arrangements(GroupNames, MaxGroupStates) : Injective(a)} }

ContraNames ==
    { <<"i","s","L","o","a","d","i","n","g">>, <<"h","a","s","E","r","r","o","r">>, <<"i","s","S","u","c","c","e","s","s">>, <<"s","t","a","t","u","s">>, <<"l","o","a","d","i","n","g">>, <<"i","s","O","p","e","n">>,
      <<"c","l","o","s","e","d">>, <<"i","s","S","a","v","e","P","e","n","d","i","n","g">>, <<"i","s","S","a","v","e","C","o","m","p","l","e","t","e">> }

ContraInits == { BooleanLiteral(FALSE), StringLiteral(<<"i","d","l","e">>) }

ContraInputs ==
    { [k \in DOMAIN entries |->
          StateCall(entries[k][1], setterOf(entries[k][1]), entries[k][2],
                    StateCallLoc(k, entries[k][1]))] :
      entries \in {a \in Arrangements(ContraNames \X ContraInits, MaxContraStates) :
                      Injective([k \in DOMAIN a |-> a[k][1]])} }

NestLeaves == { NumericLiteral(0), CallExpression(Identifier(<<"c","r","e","a","t","e","S","t","a","t","e">>), <<>>) }

IdKey == Identifier(<<"u","1">>)
LongKey == Identifier(<<"n","o","t","i","f","i","c","a","t","i","o","n","s">>)

\* Object and array literals of depth at most n, one property or element wide
RECURSIVE NestTrees(_)
NestTrees(n) ==
    IF n = 0 THEN NestLeaves
    ELSE LET sub == NestTrees(n - 1)
         IN  sub \cup {ObjectExpression(<<>>), ArrayExpression(<<>>)}
                 \cup {ObjectExpression(<<ObjectProperty(k, v)>>) :
                          k \in {IdKey, LongKey}, v \in sub}
                 \cup {ArrayExpression(<<v>>) : v \in sub}

\* Keys of every kind the key test of isNormalizedStructure tells apart
NestKeys ==
    { IdKey, LongKey, NumericLiteral(1), StringLiteral(<<"1","2","3","4","5","6","7","8","9","0","1">>),
      StringLiteral(<<"u","s","e","r","-","1">>), StringLiteral(<<>>), StringLiteral(<<"a","b","c","d","e","f","g","h","i","j">>),
      [type |-> "MemberExpression"] }

\* Two properties wide at the top, and the property kinds that are not ObjectProperty
NestWide ==
    {ObjectExpression(<<ObjectProperty(LongKey, v1), ObjectProperty(LongKey, v2)>>) :
        v1, v2 \in NestTrees(2)}
    \cup {ObjectExpression(<<ObjectProperty(LongKey, ObjectExpression(<<ObjectProperty(k, v)>>))>>) :
            k \in NestKeys, v \in NestTrees(2)}
    \cup {ObjectExpression(<<ObjectProperty(LongKey,
              ObjectExpression(<<[type |-> "ObjectMethod"], ObjectProperty(k, v)>>))>>) :
            k \in {IdKey, LongKey}, v \in NestTrees(2)}
    \cup {ObjectExpression(<<[type |-> "SpreadElement"], ObjectProperty(LongKey, v)>>) :
            v \in NestTrees(2)}
    \cup {ArrayExpression(<<Undefined, v>>) : v \in NestTrees(2)}

NestInitialValues == NestTrees(MaxNestDepth) \cup NestWide \cup {Undefined}

NestInputs ==
    { <<StateCall(<<"d","a","t","a">>, <<"s","e","t","D","a","t","a">>, v, StateCallLoc(1, <<"d","a","t","a">>))>> : v \in NestInitialValues }
    \cup { <<StateCall(<<"u","s","e","r">>, <<"s","e","t","U","s","e","r">>, v1, StateCallLoc(1, <<"u","s","e","r">>)),
             StateCall(<<"d","a","t","a">>, <<"s","e","t","D","a","t","a">>, v2, StateCallLoc(2, <<"d","a","t","a">>))>> :
           v1, v2 \in NestTrees(3) }

---------------------------------------------------------------------------
(* checkComponent of one rule applied to the state calls of one component *)

\* no analysis is going on
AnalyzerIdle ==
    /\ files = <<>>
    /\ projectContext = Undefined
    /\ fileIndex = 0
    /\ ast = <<>>
    /\ ruleIndex = 0
    /\ fnIndex = 0
    /\ ruleIssues = <<>>
    /\ componentProps = <<>>
    /\ filesSkipped = <<>>
    /\ filesAnalyzed = 0
    /\ reactComponentsFound = 0
    /\ result = Undefined
    /\ run = 0
    /\ firstRun = Undefined
    /\ nextContext = Undefined

InitGroup ==
    /\ AnalyzerIdle
    /\ pc = "start"
    /\ stateCalls \in GroupInputs
    /\ groups = <<>>
    /\ issues = <<>>

GroupCheckComponent ==
    /\ pc = "start"
    /\ groups' = findRelatedStateGroups(stateCalls)
    /\ issues' = groupRelatedCheckComponent(stateCalls, TestFile)
    /\ pc' = "done"
    /\ UNCHANGED <<stateCalls, analyzerVars>>

SpecGroup == InitGroup /\ [][GroupCheckComponent]_vars

InitContra ==
    /\ AnalyzerIdle
    /\ pc = "start"
    /\ stateCalls \in ContraInputs
    /\ groups = <<>>
    /\ issues = <<>>

ContraCheckComponent ==
    /\ pc = "start"
    /\ groups' = findContradictoryGroups(booleanStatesOf(stateCalls))
    /\ issues' = contradictionsCheckComponent(stateCalls, TestFile)
    /\ pc' = "done"
    /\ UNCHANGED <<stateCalls, analyzerVars>>

SpecContra == InitContra /\ [][ContraCheckComponent]_vars

InitNest ==
    /\ AnalyzerIdle
    /\ pc = "start"
    /\ stateCalls \in NestInputs
    /\ groups = <<>>
    /\ issues = <<>>

NestCheckComponent ==
    /\ pc = "start"
    /\ issues' = nestedCheckComponent(stateCalls, TestFile)
    /\ pc' = "done"
    /\ UNCHANGED <<stateCalls, groups, analyzerVars>>

SpecNest == InitNest /\ [][NestCheckComponent]_vars

---------------------------------------------------------------------------
(* Claims about the rule functions *)

Names(calls) == [k \in DOMAIN calls |-> calls[k].name]

\* C8 as stated: every reported group is a maximal group of mutually related
\* entries: any two of its members are related to each other, and no entry
\* outside it is related to all of its members.
C8_MaximalMutualGroups ==
    pc = "done" =>
        \A g \in DOMAIN groups :
            /\ \A a, b \in Range(groups[g]) :
                  a # b => areRelated(stateCalls[a], stateCalls[b])
            /\ \A e \in DOMAIN stateCalls \ Range(groups[g]) :
                  ~(\A m \in Range(groups[g]) : areRelated(stateCalls[e], stateCalls[m]))

\* C8 amended: every reported group is built around its first entry: it has
\* at least two members in declaration order, every other member is related
\* (areRelated) to the first member, and every later entry related to the
\* first member is in the group unless it is in a group reported earlier;
\* one issue is reported per group and names its members.
C8_GroupsAroundFirstEntry ==
    pc = "done" =>
        /\ Len(issues) = Len(groups)
        /\ \A g \in DOMAIN groups :
              LET group == groups[g]
                  head == group[1]
              IN  /\ Len(group) >= 2
                  /\ \A k \in 2..Len(group) :
                        /\ group[k - 1] < group[k]
                        /\ areRelated(stateCalls[head], stateCalls[group[k]])
                  /\ \A e \in (head + 1)..Len(stateCalls) :
                        areRelated(stateCalls[head], stateCalls[e]) =>
                            \/ e \in Range(group)
                            \/ \E h \in 1..(g - 1) : e \in Range(groups[h])
                  /\ issues[g].rule = "group-related-state"
                  /\ issues[g].message.parts[2] =
                        join([k \in DOMAIN group |-> stateCalls[group[k]].name], <<","," ">>)

\* C8 witness: a reported group of three or more with two members that are
\* not related to each other
C8_Witness ==
    /\ pc = "done"
    /\ \E g \in DOMAIN groups :
          /\ Len(groups[g]) >= 3
          /\ \E a, b \in Range(groups[g]) :
                a # b /\ ~areRelated(stateCalls[a], stateCalls[b])

\* Boolean-flavored, as the claim words it: the name starts with a
\* boolean-question prefix, or the initializer is a boolean literal
BooleanFlavored(state) ==
    \/ \E p \in { <<"i","s">>, <<"h","a","s">>, <<"s","h","o","u","l","d">>, <<"c","a","n">>, <<"w","i","l","l">>, <<"d","i","d">>, <<"d","o","e","s">> } :
          startsWith(toLowerCase(state.name), p)
    \/ state.initialValue.type = "BooleanLiteral"

\* C9: the contradiction rule only groups boolean-flavored entries: every
\* issue has severity error and names two or more entries, all of them
\* boolean-flavored; isLoading, hasError, isSuccess with boolean literals
\* yield exactly one error naming all three; a lone string-valued status
\* yields no issue.
C9_OnlyBooleanFlavoredGroups ==
    pc = "done" =>
        /\ \E picks \in [DOMAIN issues -> SUBSET (DOMAIN stateCalls)] :
              \A k \in DOMAIN issues :
                  /\ issues[k].rule = "avoid-state-contradictions"
                  /\ issues[k].severity = "error"
                  /\ Cardinality(picks[k]) >= 2
                  /\ \A e \in picks[k] : BooleanFlavored(stateCalls[e])
                  /\ issues[k].message.parts =
                        << String(Cardinality(picks[k])),
                           join(Names(filter(stateCalls,
                                    LAMBDA sc : \E e \in picks[k] : stateCalls[e] = sc)), <<","," ">>) >>
        /\ ( /\ Len(stateCalls) = 3
             /\ Range(Names(stateCalls)) = { <<"i","s","L","o","a","d","i","n","g">>, <<"h","a","s","E","r","r","o","r">>, <<"i","s","S","u","c","c","e","s","s">> }
             /\ \A e \in DOMAIN stateCalls : stateCalls[e].initialValue.type = "BooleanLiteral" )
           => ( /\ Len(issues) = 1
                /\ issues[1].severity = "error"
                /\ issues[1].message.parts = << <<"3">>, join(Names(stateCalls), <<","," ">>) >> )
        /\ ( /\ Len(stateCalls) = 1
             /\ stateCalls[1].name = <<"s","t","a","t","u","s">>
             /\ stateCalls[1].initialValue.type = "StringLiteral" )
           => issues = <<>>

\* C9 witness: the three boolean-literal states, one issue reported, and next
\* to it a run where an entry that is not boolean-flavored stays out of an issue
C9_Witness ==
    /\ pc = "done"
    /\ Names(stateCalls) = << <<"i","s","L","o","a","d","i","n","g">>, <<"h","a","s","E","r","r","o","r">>, <<"i","s","S","u","c","c","e","s","s">> >>
    /\ \A e \in DOMAIN stateCalls : stateCalls[e].initialValue.type = "BooleanLiteral"
    /\ Len(issues) = 1

\* The depth the claim defines: an object literal adds one level, an array
\* literal adds none but its elements are recursed into, anything else is 0
RECURSIVE LiteralDepth(_)
LiteralDepth(node) ==
    IF node.type = "ObjectExpression"
    THEN 1 + LET inner == {LiteralDepth(node.properties[i].value) :
                              i \in {j \in DOMAIN node.properties :
                                        node.properties[j].type = "ObjectProperty"}}
           IN  IF inner = {} THEN 0 ELSE CHOOSE d \in inner : \A o \in inner : o <= d
    ELSE IF node.type = "ArrayExpression"
    THEN LET inner == {LiteralDepth(node.elements[i]) : i \in DOMAIN node.elements}
         IN  IF inner = {} THEN 0 ELSE CHOOSE d \in inner : \A o \in inner : o <= d
    ELSE 0

IssuesNaming(name) == filter(issues, LAMBDA i : i.message.parts[1] = name)

\* C10: per state entry at most one issue; with d the depth of the
\* initializer, an issue is emitted iff d > 2 when the initializer has not the
\* normalized-entities shape and iff d > 3 when it has; the message states d.
C10_NestingThresholds ==
    pc = "done" =>
        /\ Len(issues) <= Len(stateCalls)
        /\ \A e \in DOMAIN stateCalls :
              LET d == LiteralDepth(stateCalls[e].initialValue)
                  flagged == IF isNormalizedStructure(stateCalls[e].initialValue)
                             THEN d > 3 ELSE d > 2
                  mine == IssuesNaming(stateCalls[e].name)
              IN  /\ Len(mine) = (IF flagged THEN 1 ELSE 0)
                  /\ flagged => /\ mine[1].rule = "avoid-deeply-nested-state"
                                /\ mine[1].message.parts[2] = String(d)

\* C10 witness: a normalized-entities initializer four levels deep, flagged
C10_Witness ==
    /\ pc = "done"
    /\ \E e \in DOMAIN stateCalls :
          /\ isNormalizedStructure(stateCalls[e].initialValue)
          /\ LiteralDepth(stateCalls[e].initialValue) = 4
          /\ Len(IssuesNaming(stateCalls[e].name)) = 1

---------------------------------------------------------------------------
(* avoid-state-duplication over generated components                       *)

\* the most useState declarations of a generated component
MaxDupStates == 2

\* the most properties of an object literal a state starts from
MaxObjectProperties == 6

\* the most "state.prop" accesses a generated component renders
MaxAccesses == 3

PropNames == { <<"u","s","e","r","I","d">>, <<"t","h","e","m","e">> }

DupStateNames == << <<"u","s","e","r">>, <<"c","o","p","y">>, <<"d","r","a","f","t">>, <<"s","a","v","e","d">> >>

FieldNames == << <<"i","d">>, <<"n","a","m","e">>, <<"e","m","a","i","l">>, <<"p","h","o","n","e">>, <<"c","i","t","y">>, <<"z","i","p">>, <<"b","i","o">>, <<"a","g","e">> >>

AccessedNames == { <<"i","d">>, <<"n","a","m","e">>, <<"e","m","a","i","l">> }

\* the first parameter of the component: none, "{ a, b }", "props" or "p"
DupParams ==
    {<<>>, <<Identifier(<<"p","r","o","p","s">>)>>, <<Identifier(<<"p">>)>>}
    \cup {<<ObjectPattern(map(names, shorthand))>> :
            names \in {a \in Arrangements(PropNames, 2) : a # <<>> /\ Injective(a)}}

\* what useState is given: nothing, a literal, an identifier, a member of
\* "props", of "p" or of the first state
PropInits ==
    {Undefined, NumericLiteral(0)}
    \cup {Identifier(x) : x \in PropNames \cup {<<"f","a","l","l","b","a","c","k">>}}
    \cup {MemberExpression(Identifier(o), Identifier(x)) :
            o \in {<<"p","r","o","p","s">>, <<"p">>, DupStateNames[1]}, x \in PropNames}

\* "{ id: 0, name: 0, ... }" with k properties
ObjectLiteral(k) ==
    ObjectExpression([i \in 1..k |-> ObjectProperty(Identifier(FieldNames[i]),
                                                     NumericLiteral(0))])

ObjectInits == {ObjectLiteral(k) : k \in 0..MaxObjectProperties}

\* the k-th declaration, on line k + 1, and the nodes of its initializer
dupDeclaration(inits, k) ==
    LET line == k + 1
        chain == << Ancestor("CallExpression", 10 * line + 3, <<"u","s","e","S","t","a","t","e">>),
                    Ancestor("VariableDeclarator", 10 * line, <<>>),
                    Ancestor("VariableDeclaration", 10 * line + 1, <<>>), Body >>
        at == Loc(line, StateCallLoc(k, DupStateNames[k]).column + 9)
    IN  useStateDeclaration(DupStateNames[k], inits[k], line)
        \o (IF isMemberExpression(inits[k])
            THEN << Visited(inits[k], Parent("CallExpression"), at, chain),
                    Visited(IdentifierNode(inits[k].object.name, FALSE, "object"),
                            Parent("MemberExpression"), at,
                            <<Ancestor("MemberExpression", 10 * line + 4, <<>>)>> \o chain) >>
            ELSE IF isIdentifier(inits[k])
            THEN << Visited(IdentifierNode(inits[k].name, FALSE, "argument"),
                            Parent("CallExpression"), at, chain) >>
            ELSE <<>>)

\* the props the component renders itself: "{a}" of "{ a, b }", "{props.theme}"
directUsage(params, line) ==
    IF params = <<>> THEN <<>>
    ELSE IF isObjectPattern(params[1])
    THEN renderedChild(params[1].properties[1].key.name, line, 40)
    ELSE renderedMember(params[1].name, <<"t","h","e","m","e">>, line, 40)

(* 1 function Profile(<params>) {
   2   const [user, setUser] = useState(<inits[1]>);
   3   const [copy, setCopy] = useState(<inits[2]>);
   n   return <div>{user.<accesses[1]>}...{<a prop>}</div>;
     }                                                                        *)
DupComponent(params, inits, accesses, direct) ==
    LET n == Len(inits)
        last == n + 2
    IN  Function("FunctionDeclaration", Identifier(<<"P","r","o","f","i","l","e">>), Program, params, Loc(1, 0),
                 (IF params # <<>> /\ isObjectPattern(params[1])
                  THEN flatMap(params[1].properties,
                               LAMBDA prop : destructuredProp(prop.key.name, 1, 19))
                  ELSE <<>>)
                 \o flatMap([k \in 1..n |-> k], LAMBDA k : dupDeclaration(inits, k))
                 \o returnElement(last)
                 \o flatMap([k \in DOMAIN accesses |-> k], LAMBDA k :
                        renderedMember(DupStateNames[1], accesses[k], last, 10 + 10 * k))
                 \o (IF direct THEN directUsage(params, last) ELSE <<>>))

\* All sequences of 0..n elements of S
RECURSIVE Lists(_, _)
Lists(S, n) ==
    IF n = 0 THEN {<<>>}
    ELSE LET shorter == Lists(S, n - 1)
         IN  shorter \cup {Append(a, x) : a \in {b \in shorter : Len(b) = n - 1},
                                          x \in S}

\* components whose states start from props, from other states or from neither
PropComponents ==
    {DupComponent(params, inits, <<>>, direct) :
        params \in DupParams,
        inits \in {l \in Lists(PropInits, MaxDupStates) : l # <<>>},
        direct \in BOOLEAN}

\* components whose first state starts from an object literal and that read
\* some of its properties
ObjectComponents ==
    {DupComponent(<<>>, <<init>>, accesses, FALSE) :
        init \in ObjectInits, accesses \in Lists(AccessedNames, MaxAccesses)}

DupComponents == PropComponents \cup ObjectComponents

\* A caller of Rule.check holding one parsed file: nothing of the analyzer runs
TreeParsed(trees, contexts) ==
    /\ pc = "parsed"
    /\ stateCalls = <<>>
    /\ groups = <<>>
    /\ issues = <<>>
    /\ files = <<TestFile>>
    /\ projectContext \in contexts
    /\ fileIndex = 1
    /\ ast \in trees
    /\ ruleIndex = 0
    /\ fnIndex = 0
    /\ ruleIssues = <<>>
    /\ componentProps = <<>>
    /\ filesSkipped = <<>>
    /\ filesAnalyzed = 0
    /\ reactComponentsFound = 0
    /\ result = Undefined
    /\ run = 0
    /\ firstRun = Undefined
    /\ nextContext = Undefined

\* rule.check(ast, filename, context) called once, its return value kept
CheckTree(rule) ==
    /\ pc = "parsed"
    /\ ruleIssues' = check(rule, ast, files[fileIndex], projectContext)
    /\ pc' = "checked"
    /\ UNCHANGED <<stateCalls, groups, issues, files, projectContext, fileIndex, ast,
                   ruleIndex, fnIndex, componentProps, filesSkipped, filesAnalyzed,
                   reactComponentsFound, result, run, firstRun, nextContext>>

InitDup == TreeParsed({<<c>> : c \in DupComponents}, {Undefined})

CheckDuplication == CheckTree("avoid-state-duplication")

SpecDup == InitDup /\ [][CheckDuplication]_vars
---------------------------------------------------------------------------
(* prefer-explicit-transitions over generated components                   *)

\* the most useState declarations of a generated component
MaxExplicitStates == 8

\* the most setters a generated component calls in its handlers
MaxCalledSetters == 4

ExplicitStateNames ==
    << <<"s","t","a","t","u","s">>, <<"d","a","t","a">>, <<"e","r","r","o","r">>, <<"r","e","t","r","i","e","s">>, <<"p","a","g","e">>, <<"q","u","e","r","y">>, <<"s","o","r","t">>, <<"d","r","a","f","t">>,
       <<"t","h","e","m","e">>, <<"l","o","c","a","l","e">>, <<"z","o","o","m">> >>

\* How a component calls one setter: never, or "calls" times in the handler
\* "block", each call plain ("setX(0)"), functional ("setX((prev) => prev)")
\* or under a condition ("if (ready) setX(0)")
Never == [calls |-> 0, kind |-> "plain", block |-> 1]

SetterProfiles ==
    {Never}
    \cup {[calls |-> 1, kind |-> k, block |-> b] : k \in {"plain", "prev"}, b \in 1..2}
    \cup {[calls |-> c, kind |-> "cond", block |-> 1] : c \in 1..2}

\* an order on the profiles: how a component's setters are numbered is no
\* matter, so the generated components list their profiles in this order
profileRank(p) ==
    IF p.calls = 0 THEN 0
    ELSE 8 * (p.block - 1) + 4 * (p.calls - 1)
         + (CASE p.kind = "plain" -> 1 [] p.kind = "prev" -> 2 [] p.kind = "cond" -> 3)

ProfileLists(n) ==
    {l \in [1..n -> SetterProfiles] :
        \A i \in 1..(n - 1) : profileRank(l[i]) <= profileRank(l[i + 1])}

\* the statements of "const handle<b> = () => { ... }"
handlerChain(b) ==
    << Ancestor("BlockStatement", 1000 * b + 2, <<>>),
       Ancestor("ArrowFunctionExpression", 1000 * b, <<>>),
       Ancestor("VariableDeclarator", 1000 * b + 1, <<"h","a","n","d","l","e">> \o String(b)),
       Ancestor("VariableDeclaration", 1000 * b + 3, <<>>), Body >>

\* the j-th call of the i-th setter, on a line of its handler
setterSite(i, j, profile) ==
    LET line == 100 * profile.block + 10 * i + j
        setter == setterOf(ExplicitStateNames[i])
        chain == handlerChain(profile.block)
    IN  CASE profile.kind = "plain" ->
                setterStatement(setter, NumericLiteral(0), line, chain)
          [] profile.kind = "prev" ->
                setterStatement(setter,
                                ArrowFunctionExpression(10 * line + 5, Identifier(<<"p","r","e","v">>)),
                                line, chain)
          [] profile.kind = "cond" ->
                << Visited(CallExpression(Identifier(setter), <<NumericLiteral(0)>>),
                           Parent("ExpressionStatement"), Loc(line, 15),
                           << Ancestor("ExpressionStatement", 10 * line + 1, <<>>),
                              Ancestor("IfStatement", 10 * line + 6, <<>>) >> \o chain) >>

\* "  const [state, dispatch] = useReducer(reducer, 0);" on a line of the body
useReducerDeclaration(line) ==
    << Visited(CallExpression(Identifier(<<"u","s","e","R","e","d","u","c","e","r">>),
                              <<Identifier(<<"r","e","d","u","c","e","r">>), NumericLiteral(0)>>),
               VariableDeclarator(ArrayPattern(<<Identifier(<<"s","t","a","t","e">>), Identifier(<<"d","i","s","p","a","t","c","h">>)>>)),
               Loc(line, 28),
               << Ancestor("VariableDeclarator", 10 * line, <<>>),
                  Ancestor("VariableDeclaration", 10 * line + 1, <<>>), Body >>) >>

(*   1 function Panel() {
   2..   const [status, setStatus] = useState(0);   (n declarations)
         const [state, dispatch] = useReducer(reducer, 0);   (if reducer)
         const handle1 = () => { <the calls of block 1> };
         const handle2 = () => { <the calls of block 2> };
         return <div />;
       }                                                                      *)
ExplicitComponent(n, profiles, reducer) ==
    LET sitesIn(b) ==
            flatMap(indexes(profiles), LAMBDA i :
                IF profiles[i].block = b
                THEN flatMap([j \in 1..profiles[i].calls |-> j],
                             LAMBDA j : setterSite(i, j, profiles[i]))
                ELSE <<>>)
    IN  Function("FunctionDeclaration", Identifier(<<"P","a","n","e","l">>), Program, <<>>, Loc(1, 0),
                 flatMap([k \in 1..n |-> k], LAMBDA k :
                     useStateDeclaration(ExplicitStateNames[k], NumericLiteral(0), k + 1))
                 \o (IF reducer THEN useReducerDeclaration(n + 2) ELSE <<>>)
                 \o sitesIn(1) \o sitesIn(2)
                 \o returnElement(300))

Min(a, b) == IF a <= b THEN a ELSE b

ExplicitComponents ==
    UNION {{ExplicitComponent(n, profiles, reducer) :
                profiles \in ProfileLists(Min(n, MaxCalledSetters)), reducer \in BOOLEAN} :
           n \in 0..MaxExplicitStates}

InitExplicit ==
    \/ TreeParsed({<<c>> : c \in {d \in ExplicitComponents : ~hasUseReducer(d)}},
                  {Undefined, ProjectContext(TRUE, FALSE)})
    \/ TreeParsed({<<c>> : c \in {d \in ExplicitComponents : hasUseReducer(d)}}, {Undefined})

\* checkComponent of the rule on the one component of the file: the state
\* entries, the update patterns and the complexity it works out on the way
CheckExplicit ==
    /\ pc = "parsed"
    /\ stateCalls' = findUseStateCalls(ast[1])
    /\ result' = IF hasUseReducer(ast[1]) THEN Undefined
                  ELSE [patterns |-> analyzeStateUpdates(ast[1], stateCalls'),
                        complexity |->
                            getComplexityLevel(stateCalls',
                                               analyzeStateUpdates(ast[1], stateCalls'))]
    /\ ruleIssues' = check("prefer-explicit-transitions", ast, files[fileIndex], projectContext)
    /\ pc' = "checked"
    /\ UNCHANGED <<groups, issues, files, projectContext, fileIndex, ast,
                   ruleIndex, fnIndex, componentProps, filesSkipped, filesAnalyzed,
                   reactComponentsFound, run, firstRun, nextContext>>

SpecExplicit == InitExplicit /\ [][CheckExplicit]_vars
---------------------------------------------------------------------------
(* detect-state-in-useeffect over generated effects                        *)

\* what an effect may hold besides the setter call
EffectMarkers ==
    { <<"f","e","t","c","h">>, <<"s","e","t","T","i","m","e","o","u","t">>, <<"s","e","t","I","n","t","e","r","v","a","l">>, <<"a","d","d","E","v","e","n","t","L","i","s","t","e","n","e","r">>, <<"l","o","c","a","l","S","t","o","r","a","g","e">>,
      <<"d","o","c","u","m","e","n","t">>, <<"t","h","e","n">>, <<"c","a","t","c","h">>, <<"f","i","n","a","l","l","y">>, <<"a","w","a","i","t">>, <<"r","e","t","u","r","n">> }

\* where it holds it: in the callback's own block, or in the block of the
\* function "apply" declared inside the callback
EffectPlaces == {"callback", "nested"}

\* the setters an effect calls, and what it passes them
EffectSetters == { <<"s","e","t","D","a","t","a">>, <<"s","e","t","T","o","t","a","l">> }

EffectArguments ==
    { Undefined, Identifier(<<"i","t","e","m","s">>),
      BinaryExpression("+", MemberExpression(Identifier(<<"i","t","e","m","s">>), Identifier(<<"l","e","n","g","t","h">>)),
                       NumericLiteral(1)) }

\* the chain of the statements of "const apply = () => { ... }" on line 4 of
\* the callback of the effect on line 2
nestedChain ==
    << Ancestor("BlockStatement", 42, <<>>),
       Ancestor("ArrowFunctionExpression", 40, <<>>),
       Ancestor("VariableDeclarator", 41, <<"a","p","p","l","y">>),
       Ancestor("VariableDeclaration", 43, <<>>) >> \o effectChain(2)

placeChain(place) == IF place = "nested" THEN nestedChain ELSE effectChain(2)

\* a call statement on a line of a block
callStatement(callee, arguments, line, chain) ==
    << Visited(CallExpression(callee, arguments), Parent("ExpressionStatement"),
               Loc(line, 4), <<Ancestor("ExpressionStatement", 10 * line + 1, <<>>)>> \o chain) >>

\* the statement that carries a marker
markerStatement(marker, line, chain) ==
    CASE marker \in {<<"f","e","t","c","h">>, <<"s","e","t","T","i","m","e","o","u","t">>, <<"s","e","t","I","n","t","e","r","v","a","l">>, <<"a","d","d","E","v","e","n","t","L","i","s","t","e","n","e","r">>} ->
            callStatement(Identifier(marker), <<Identifier(<<"t","i","c","k">>)>>, line, chain)
      [] marker \in {<<"l","o","c","a","l","S","t","o","r","a","g","e">>, <<"d","o","c","u","m","e","n","t">>} ->
            callStatement(MemberExpression(Identifier(marker), Identifier(<<"g","e","t","I","t","e","m">>)),
                          <<StringLiteral(<<"k","e","y">>)>>, line, chain)
      [] marker \in {<<"t","h","e","n">>, <<"c","a","t","c","h">>, <<"f","i","n","a","l","l","y">>} ->
            callStatement(MemberExpression(Identifier(<<"l","o","a","d","e","d">>), Identifier(marker)),
                          <<Identifier(<<"t","i","c","k">>)>>, line, chain)
      [] marker = <<"a","w","a","i","t">> ->
            << Visited([type |-> "AwaitExpression"], Parent("ExpressionStatement"),
                       Loc(line, 4),
                       <<Ancestor("ExpressionStatement", 10 * line + 1, <<>>)>> \o chain) >>
      [] marker = <<"r","e","t","u","r","n">> ->
            << Visited([type |-> "ReturnStatement", ref |-> 10 * line],
                       Parent("BlockStatement"), Loc(line, 4), chain) >>
      [] marker = <<"n","o","n","e">> -> <<>>

(*  1 function Report({ items }) {
    2   useEffect(() => {
    3     <marker, placed in the callback>
    4     const apply = () => {
    5       <setter call, placed in the nested function>
    6       <marker, placed in the nested function>
    7     };
    8     <setter call, placed in the callback>
    9     <return, placed in the callback>
   10   }, [items]);
   11   return <div />;
   12 }                                                                       *)
EffectComponent(setter, argument, setterPlace, marker, markerPlace) ==
    LET setterLine == IF setterPlace = "nested" THEN 5 ELSE 8
        markerLine == IF markerPlace = "nested" THEN 6
                      ELSE IF marker = <<"r","e","t","u","r","n">> THEN 9 ELSE 3
        call == << Visited(CallExpression(Identifier(setter),
                                          IF argument = Undefined THEN <<>> ELSE <<argument>>),
                           Parent("ExpressionStatement"), Loc(setterLine, 4),
                           <<Ancestor("ExpressionStatement", 10 * setterLine + 1, <<>>)>>
                               \o placeChain(setterPlace)) >>
        mark == markerStatement(marker, markerLine, placeChain(markerPlace))
    IN  Function("FunctionDeclaration", Identifier(<<"R","e","p","o","r","t">>), Program,
                 <<ObjectPattern(<<shorthand(<<"i","t","e","m","s">>)>>)>>, Loc(1, 0),
                 destructuredProp(<<"i","t","e","m","s">>, 1, 18)
                 \o useEffectCall(2, <<"i","t","e","m","s">>)
                 \o (IF markerLine = 3 THEN mark ELSE <<>>)
                 \o (IF setterLine = 5 THEN call ELSE <<>>)
                 \o (IF markerLine = 6 THEN mark ELSE <<>>)
                 \o (IF setterLine = 8 THEN call ELSE <<>>)
                 \o (IF markerLine = 9 THEN mark ELSE <<>>)
                 \o returnElement(11))

EffectComponents ==
    {EffectComponent(setter, argument, setterPlace, marker, markerPlace) :
        setter \in EffectSetters, argument \in EffectArguments,
        setterPlace \in EffectPlaces, marker \in EffectMarkers \cup {<<"n","o","n","e">>},
        markerPlace \in EffectPlaces}

InitEffect == TreeParsed({<<c>> : c \in EffectComponents}, {Undefined})

CheckEffect == CheckTree("detect-state-in-useeffect")

SpecEffect == InitEffect /\ [][CheckEffect]_vars
---------------------------------------------------------------------------
(* state-vs-refs over generated components                                 *)

\* the forms of component the detector accepts
ComponentForms == {"FunctionDeclaration", "FunctionExpression", "ArrowBlock", "ArrowExpression"}

\* where the state is declared: in the component's body, or in a function
\* nested in the markup the component returns (a render callback)
RefLayouts == {"body", "markup"}

RefStateNames == { <<"l","a","b","e","l">>, <<"c","o","u","n","t">>, <<"E","l","e","m","e","n","t">>, <<"I","c","o","n">> }

\* how the markup refers to the state: "{x}", "value={x}", "onClick={() =>
\* use(x)}", "<X />", or not at all
RefUsages == {"none", "child", "attribute", "callback", "tag"}

\* the chain of the children of the element a component returns: below a
\* return statement of its block, or the body itself
markupChain(form) ==
    <<Ancestor("JSXElement", 32, <<>>)>>
    \o (IF form = "ArrowExpression" THEN <<>> ELSE returnChain(3))

\* "{() => { ... }}" among the children of the returned element
renderCallbackChain(form) ==
    << Ancestor("BlockStatement", 52, <<>>),
       Ancestor("ArrowFunctionExpression", 50, <<>>),
       Ancestor("JSXExpressionContainer", 51, <<>>) >> \o markupChain(form)

\* "const [name, setName] = useState(0);" in a block with the chain given
stateDeclarationIn(name, line, block) ==
    LET chain == << Ancestor("VariableDeclarator", 10 * line, <<>>),
                    Ancestor("VariableDeclaration", 10 * line + 1, <<>>) >> \o block
        pattern == <<Ancestor("ArrayPattern", 10 * line + 2, <<>>)>> \o chain
    IN  << Visited(IdentifierNode(name, TRUE, "element"), Parent("ArrayPattern"),
                   Loc(line, 9), pattern),
           Visited(IdentifierNode(setterOf(name), TRUE, "element"), Parent("ArrayPattern"),
                   Loc(line, 9 + Len(name) + 2), pattern),
           Visited(CallExpression(Identifier(<<"u","s","e","S","t","a","t","e">>), <<NumericLiteral(0)>>),
                   VariableDeclarator(ArrayPattern(<<Identifier(name),
                                                     Identifier(setterOf(name))>>)),
                   StateCallLoc(line - 1, name), chain) >>

\* the reference to the state inside an element with the chain given
markupUsage(name, usage, line, element) ==
    CASE usage = "child" ->
            << Visited(IdentifierNode(name, FALSE, "expression"),
                       Parent("JSXExpressionContainer"), Loc(line, 20),
                       <<Ancestor("JSXExpressionContainer", 10 * line + 3, <<>>)>>
                           \o element) >>
      [] usage = "attribute" ->
            << Visited(IdentifierNode(name, FALSE, "expression"),
                       Parent("JSXExpressionContainer"), Loc(line, 20),
                       << Ancestor("JSXExpressionContainer", 10 * line + 3, <<>>),
                          Ancestor("JSXAttribute", 10 * line + 4, <<"v","a","l","u","e">>),
                          Ancestor("JSXOpeningElement", 10 * line + 5, <<>>) >>
                           \o element) >>
      [] usage = "callback" ->
            << Visited(IdentifierNode(name, FALSE, "argument"),
                       Parent("CallExpression"), Loc(line, 30),
                       << Ancestor("CallExpression", 10 * line + 7, <<"u","s","e">>),
                          Ancestor("ArrowFunctionExpression", 10 * line + 6, <<>>),
                          Ancestor("JSXExpressionContainer", 10 * line + 3, <<>>),
                          Ancestor("JSXAttribute", 10 * line + 4, <<"o","n","C","l","i","c","k">>),
                          Ancestor("JSXOpeningElement", 10 * line + 5, <<>>) >>
                           \o element) >>
      [] usage = "tag" ->
            << Visited([type |-> "JSXIdentifier", name |-> name],
                       Parent("JSXOpeningElement"), Loc(line, 10),
                       <<Ancestor("JSXOpeningElement", 10 * line + 5, <<>>)>> \o element) >>
      [] usage = "none" -> <<>>

\* the element a component returns, with its return statement if it has one
returnedElement(form) ==
    IF form = "ArrowExpression"
    THEN << Visited([type |-> "JSXElement"], Parent("ArrowFunctionExpression"),
                    Loc(1, 23), <<>>) >>
    ELSE returnElement(3)

\* the nodes below a component of the form and layout given
refNodes(form, layout, name, usage) ==
    IF layout = "body"
    THEN stateDeclarationIn(name, 2, <<Body>>)
         \o returnedElement(form)
         \o markupUsage(name, usage, 3, markupChain(form))
    ELSE LET callback == renderCallbackChain(form)
         IN  returnedElement(form)
             \o stateDeclarationIn(name, 6, callback)
             \o << Visited([type |-> "ReturnStatement", ref |-> 70],
                           Parent("BlockStatement"), Loc(7, 6), callback),
                   Visited([type |-> "JSXElement"], Parent("ReturnStatement"), Loc(7, 13),
                           <<Ancestor("ReturnStatement", 70, <<>>)>> \o callback) >>
             \o markupUsage(name, usage, 7,
                            << Ancestor("JSXElement", 72, <<>>),
                               Ancestor("ReturnStatement", 70, <<>>) >> \o callback)

\* the chain of a node as a traversal started at the function ref sees it
RECURSIVE chainBelow(_, _)
chainBelow(chain, ref) ==
    IF chain = <<>> \/ chain[1].ref = ref THEN <<>>
    ELSE <<chain[1]>> \o chainBelow(Tail(chain), ref)

\* the nodes of a list that lie below the function ref, as seen from it
nodesBelow(visited, ref) ==
    map(SelectSeq(visited, LAMBDA v : \E k \in DOMAIN v.ancestors : v.ancestors[k].ref = ref),
        LAMBDA v : Visited(v.node, v.parent, v.loc, chainBelow(v.ancestors, ref)))

(* layout "body":                          layout "markup":
   1 function Widget() {                   1 function Widget() {
   2   const [x, setX] = useState(0);      3   return <Consumer>
   3   return <div ... x ... />;           5     {() => {
   4 }                                     6       const [x, setX] = useState(0);
                                           7       return <b ... x ... />;
   the other forms:                        8     }}
   const Widget = function () { ... }      9   </Consumer>;
   const Widget = () => { ... }           10 }
   const Widget = () => <Consumer>...</Consumer>   (no block: layout "markup") *)
RefTree(form, layout, name, usage) ==
    LET nodes == refNodes(form, layout, name, usage)
        outer == IF form = "FunctionDeclaration"
                 THEN Function("FunctionDeclaration", Identifier(<<"W","i","d","g","e","t">>), Program,
                               <<>>, Loc(1, 0), nodes)
                 ELSE Function(IF form = "FunctionExpression" THEN "FunctionExpression"
                               ELSE "ArrowFunctionExpression",
                               NullLiteral, VariableDeclarator(Identifier(<<"W","i","d","g","e","t">>)),
                               <<>>, Loc(1, 15), nodes)
    IN  IF layout = "body" THEN <<outer>>
        ELSE << outer,
                Function("ArrowFunctionExpression", NullLiteral,
                         Parent("JSXExpressionContainer"), <<>>, Loc(5, 5),
                         nodesBelow(nodes, 50)) >>

RefTrees ==
    {RefTree(shape[1], shape[2], name, usage) :
        shape \in {sh \in ComponentForms \X RefLayouts :
                      ~(sh[1] = "ArrowExpression" /\ sh[2] = "body")},
        name \in RefStateNames,
        usage \in RefUsages}

InitRefs == TreeParsed(RefTrees, {Undefined})

CheckRefs == CheckTree("state-vs-refs")

SpecRefs == InitRefs /\ [][CheckRefs]_vars
---------------------------------------------------------------------------
(* Files of components that hand one prop down: every component is written *)
(*   L    function Name(props) {          or  function Name({ user, id }) { *)
(*   L+1    return <div>{props.id}{props.user}                              *)
(*   L+2      <Child user={props.user} /></div>;                            *)
(*   L+3  }                                                                 *)
(* and reads "id" in its markup; what it does with the other prop varies.   *)

MaxDrillComponents == 3

DrillNames == << <<"T","o","p">>, <<"M","i","d","d","l","e">>, <<"L","e","a","f">>, <<"E","x","t","r","a">> >>

DrillProps == { <<"u","s","e","r">>, <<"s","p","r","e","a","d","s","h","e","e","t">> }

ParameterForms == {"props", "pattern"}

Handlings == {"absent", "forward", "use", "both"}

\* the chain of the value of an attribute of the child element on a line,
\* the child being inside the element returned on the line before
childAttributeChain(line) ==
    << Ancestor("JSXExpressionContainer", 10 * line + 1, <<>>),
       Ancestor("JSXAttribute", 10 * line + 3, <<>>),
       Ancestor("JSXOpeningElement", 10 * line + 4, <<>>),
       Ancestor("JSXElement", 10 * line + 2, <<>>),
       Ancestor("JSXElement", 10 * (line - 1) + 2, <<>>) >> \o returnChain(line - 1)

\* "<Child name={name} />" or "<Child name={props.name} />" on a line
forwardedProp(form, name, line) ==
    LET chain == childAttributeChain(line)
        member == <<Ancestor("MemberExpression", 10 * line + 5, <<>>)>> \o chain
        column == 17 + Len(name)
    IN  IF form = "pattern"
        THEN << Visited(IdentifierNode(name, FALSE, "expression"),
                        Parent("JSXExpressionContainer"), Loc(line, column), chain) >>
        ELSE << Visited(MemberExpression(Identifier(<<"p","r","o","p","s">>), Identifier(name)),
                        Parent("JSXExpressionContainer"), Loc(line, column), chain),
                Visited(IdentifierNode(<<"p","r","o","p","s">>, FALSE, "object"), Parent("MemberExpression"),
                        Loc(line, column), member),
                Visited(IdentifierNode(name, FALSE, "property"), Parent("MemberExpression"),
                        Loc(line, column + 6), member) >>

\* "{name}" or "{props.name}" among the children of the returned element
renderedProp(form, name, line, column) ==
    IF form = "pattern" THEN renderedChild(name, line, column)
    ELSE renderedMember(<<"p","r","o","p","s">>, name, line, column)

\* the k-th component of a file, in the parameter form given, doing with the
\* prop what handling says
DrillComponent(k, form, name, handling) ==
    LET line == 4 * k - 3
        componentName == DrillNames[k]
        handled == handling # "absent"
        params == IF form = "props" THEN <<Identifier(<<"p","r","o","p","s">>)>>
                  ELSE << ObjectPattern((IF handled THEN <<shorthand(name)>> ELSE <<>>)
                                        \o <<shorthand(<<"i","d">>)>>) >>
        declared == IF form = "props" THEN <<>>
                    ELSE (IF handled
                          THEN destructuredProp(name, line, 11 + Len(componentName) + 2)
                          ELSE <<>>)
                         \o destructuredProp(<<"i","d">>, line, 11 + Len(componentName) + 4 + Len(name))
    IN  Function("FunctionDeclaration", Identifier(componentName), Program,
                 params, Loc(line, 0),
                 declared
                 \o returnElement(line + 1)
                 \o renderedProp(form, <<"i","d">>, line + 1, 15)
                 \o (IF handling \in {"use", "both"}
                     THEN renderedProp(form, name, line + 1, 25) ELSE <<>>)
                 \o (IF handling \in {"forward", "both"}
                     THEN forwardedProp(form, name, line + 2) ELSE <<>>))

\* the files of n components
DrillTrees(n) ==
    { [k \in 1..n |-> DrillComponent(k, forms[k], name, handlings[k])] :
          forms \in [1..n -> ParameterForms], name \in DrillProps,
          handlings \in [1..n -> Handlings] }

InitDrill == TreeParsed(UNION { DrillTrees(n) : n \in 1..MaxDrillComponents }, {Undefined})

\* detectPropDrillingRule.check on the file: the map the traversal fills,
\* and the issues created from it
CheckDrill ==
    /\ pc = "parsed"
    /\ componentProps' = componentPropsFrom(ast, 1, freshComponentProps(componentProps))
    /\ ruleIssues' = check("detect-prop-drilling", ast, files[fileIndex], projectContext)
    /\ pc' = "checked"
    /\ UNCHANGED <<stateCalls, groups, issues, files, projectContext, fileIndex, ast,
                   ruleIndex, fnIndex, filesSkipped, filesAnalyzed,
                   reactComponentsFound, result, run, firstRun, nextContext>>

SpecDrill == InitDrill /\ [][CheckDrill]_vars
---------------------------------------------------------------------------
(* server-vs-client-state over generated components                        *)
(*  1 function Panel() {                                                    *)
(*  2   const [name, setName] = useState(null);                             *)
(*  3   useEffect(() => {                                                   *)
(*  4     <network call>                                                    *)
(*  5     setName(loaded);                                                  *)
(*  6   }, [url]);                                                          *)
(*  7   fetch(url);                                                         *)
(*  8   fetch(url);                                                         *)
(*  9   return <div>{name}</div>;                                           *)
(* 10 }                                                                     *)

MaxDirectFetches == 2

\* names of the one state of the component: server-data names, names ending
\* in "data", client-only names, and names that say nothing
ServerStateNames ==
    { <<"u","s","e","r","s">>, <<"u","s","e","r","P","o","s","t","s">>, <<"p","r","o","f","i","l","e">>, <<"s","e","t","t","i","n","g","s","P","a","n","e","l">>, <<"a","p","i","D","a","t","a">>,
      <<"d","a","t","a">>, <<"u","s","e","r","D","a","t","a">>, <<"s","e","l","e","c","t","e","d","I","t","e","m","s">>, <<"f","o","r","m","D","a","t","a">>, <<"t","a","b","O","r","d","e","r","s">>, <<"t","h","e","m","e">>,
      <<"i","s","O","p","e","n">>, <<"c","o","u","n","t">>, <<"a","l","l","U","s","e","r","s","L","i","s","t">> }

\* the network call of the effect:  fetch(url);  client.query(url);
\* axios.get(url);  apollo.mutate(url);  api.subscribe(url);  and
\* const load = async () => { await fetch(url); };
NetworkCalls == {"none", "fetch", "await", "client.query", "axios.get", "apollo.mutate",
                 "api.subscribe"}

memberCall(object, method) ==
    CallExpression(MemberExpression(Identifier(object), Identifier(method)),
                   <<Identifier(<<"u","r","l">>)>>)

fetchUrlCall == CallExpression(Identifier(<<"f","e","t","c","h">>), <<Identifier(<<"u","r","l">>)>>)

\* the chain of the statements of "const load = async () => { ... }" on a line
loadChain(line, chain) ==
    << Ancestor("BlockStatement", 10 * line + 2, <<>>),
       Ancestor("ArrowFunctionExpression", 10 * line + 3, <<>>),
       Ancestor("VariableDeclarator", 10 * line + 4, <<"l","o","a","d">>),
       Ancestor("VariableDeclaration", 10 * line + 5, <<>>) >> \o chain

networkStatement(call, line, chain) ==
    CASE call = "none" -> <<>>
      [] call = "fetch" -> callStatement(Identifier(<<"f","e","t","c","h">>), <<Identifier(<<"u","r","l">>)>>, line, chain)
      [] call = "client.query" ->
            callStatement(memberCall(<<"c","l","i","e","n","t">>, <<"q","u","e","r","y">>).callee, <<Identifier(<<"u","r","l">>)>>, line, chain)
      [] call = "axios.get" ->
            callStatement(memberCall(<<"a","x","i","o","s">>, <<"g","e","t">>).callee, <<Identifier(<<"u","r","l">>)>>, line, chain)
      [] call = "apollo.mutate" ->
            callStatement(memberCall(<<"a","p","o","l","l","o">>, <<"m","u","t","a","t","e">>).callee, <<Identifier(<<"u","r","l">>)>>, line, chain)
      [] call = "api.subscribe" ->
            callStatement(memberCall(<<"a","p","i">>, <<"s","u","b","s","c","r","i","b","e">>).callee, <<Identifier(<<"u","r","l">>)>>, line, chain)
      [] call = "await" ->
            LET statement == <<Ancestor("ExpressionStatement", 10 * line + 1, <<>>)>>
                                 \o loadChain(line, chain)
            IN  << Visited([type |-> "AwaitExpression", argument |-> fetchUrlCall],
                           Parent("ExpressionStatement"), Loc(line, 31), statement),
                   Visited(fetchUrlCall, Parent("AwaitExpression"), Loc(line, 37),
                           <<Ancestor("AwaitExpression", 10 * line + 6, <<>>)>>
                               \o statement) >>

\* the component with one state, the effect's network call, the setter call
\* in the effect (or not) and a number of fetch calls in its own body
ServerComponent(name, call, sets, direct) ==
    Function("FunctionDeclaration", Identifier(<<"P","a","n","e","l">>), Program, <<>>, Loc(1, 0),
             useStateDeclaration(name, NullLiteral, 2)
             \o useEffectCall(3, <<"u","r","l">>)
             \o networkStatement(call, 4, effectChain(3))
             \o (IF sets THEN setterStatement(setterOf(name), Identifier(<<"l","o","a","d","e","d">>), 5,
                                              effectChain(3))
                 ELSE <<>>)
             \o flatMap([k \in 1..direct |-> 6 + k], LAMBDA line :
                    callStatement(Identifier(<<"f","e","t","c","h">>), <<Identifier(<<"u","r","l">>)>>, line, <<Body>>))
             \o returnElement(9)
             \o renderedChild(name, 9, 15))

ServerComponents ==
    { ServerComponent(name, call, sets, direct) :
          name \in ServerStateNames, call \in NetworkCalls, sets \in BOOLEAN,
          direct \in 0..MaxDirectFetches }

InitServer == TreeParsed({<<c>> : c \in ServerComponents}, {Undefined})

\* serverVsClientStateRule.check on the file, with what checkComponent
\* extracted from the component
CheckServer ==
    /\ pc = "parsed"
    /\ stateCalls' = findUseStateCalls(ast[1])
    /\ result' = identifyServerStatePatterns(stateCalls', findUseEffectCalls(ast[1]), ast[1])
    /\ ruleIssues' = check("server-vs-client-state", ast, files[fileIndex], projectContext)
    /\ pc' = "checked"
    /\ UNCHANGED <<groups, issues, files, projectContext, fileIndex, ast,
                   ruleIndex, fnIndex, componentProps, filesSkipped, filesAnalyzed,
                   reactComponentsFound, run, firstRun, nextContext>>

SpecServer == InitServer /\ [][CheckServer]_vars
---------------------------------------------------------------------------
(* findUseStateCalls over generated declarations: line k + 1 of the         *)
(* component holds its k-th declaration, in one of these shapes             *)
(*   pair     const [a, setA] = useState(0);                                *)
(*   single   const [a] = useState(0);                                      *)
(*   triple   const [a, setA, extra] = useState(0);                         *)
(*   hole     const [, setA] = useState(0);                                 *)
(*   nested   const [{ a }, setA] = useState(0);                            *)
(*   plain    const a = useState(0);                                        *)
(*   bare     useState(0);                                                  *)
(*   memo     const [a, setA] = useMemo(0);                                 *)
(*   empty    const [a, setA] = useState();                                 *)

MaxDeclarations == 3

DeclarationShapes ==
    {"pair", "single", "triple", "hole", "nested", "plain", "bare", "memo", "empty"}

HookStateNames == << <<"a","l","p","h","a">>, <<"b","e","t","a">>, <<"g","a","m","m","a">>, <<"d","e","l","t","a">> >>

\* an elided element of an array pattern
Hole == [type |-> "Hole"]

\* what the declaration binds
declaredPattern(shape, name) ==
    CASE shape \in {"pair", "memo", "empty"} ->
            ArrayPattern(<<Identifier(name), Identifier(setterOf(name))>>)
      [] shape = "single" -> ArrayPattern(<<Identifier(name)>>)
      [] shape = "triple" ->
            ArrayPattern(<<Identifier(name), Identifier(setterOf(name)), Identifier(<<"e","x","t","r","a">>)>>)
      [] shape = "hole" -> ArrayPattern(<<Hole, Identifier(setterOf(name))>>)
      [] shape = "nested" ->
            ArrayPattern(<<ObjectPattern(<<shorthand(name)>>), Identifier(setterOf(name))>>)
      [] shape = "plain" -> Identifier(name)

\* the call of the k-th declaration, as the CallExpression visitor meets it
hookDeclaration(shape, k) ==
    LET line == k + 1
        name == HookStateNames[k]
        callee == IF shape = "memo" THEN <<"u","s","e","M","e","m","o">> ELSE <<"u","s","e","S","t","a","t","e">>
        arguments == IF shape = "empty" THEN <<>> ELSE <<NumericLiteral(k)>>
    IN  IF shape = "bare"
        THEN callStatement(Identifier(callee), arguments, line, <<Body>>)
        ELSE << Visited(CallExpression(Identifier(callee), arguments),
                        VariableDeclarator(declaredPattern(shape, name)),
                        Loc(line, 2 + 6 + k),
                        << Ancestor("VariableDeclarator", 10 * line, <<>>),
                           Ancestor("VariableDeclaration", 10 * line + 1, <<>>), Body >>) >>

HookComponent(shapes) ==
    Function("FunctionDeclaration", Identifier(<<"C","o","u","n","t","e","r">>), Program, <<>>, Loc(1, 0),
             flatMap([k \in DOMAIN shapes |-> k], LAMBDA k : hookDeclaration(shapes[k], k))
             \o returnElement(Len(shapes) + 2))

HookComponents ==
    { HookComponent(shapes) :
          shapes \in UNION { [1..n -> DeclarationShapes] : n \in 0..MaxDeclarations } }

InitHooks == TreeParsed({<<c>> : c \in HookComponents}, {Undefined})

\* findUseStateCalls(path) of the component
FindStateCalls ==
    /\ pc = "parsed"
    /\ stateCalls' = findUseStateCalls(ast[1])
    /\ pc' = "checked"
    /\ UNCHANGED <<groups, issues, files, projectContext, fileIndex, ast, ruleIssues,
                   ruleIndex, fnIndex, componentProps, filesSkipped, filesAnalyzed,
                   reactComponentsFound, result, run, firstRun, nextContext>>

SpecHooks == InitHooks /\ [][FindStateCalls]_vars
---------------------------------------------------------------------------
(* isReactComponent over the nodes a file can hold                          *)
(*   function Name() {..}            export default function () {..}        *)
(*   const Name = function Id() {..} const Name = () => {..}                *)
(*   const { Name } = function () {..}                                      *)
(*   list.map(function Id() {..})    return () => {..}                      *)
(*   class Name {..}                                                        *)

NodeIds == { NullLiteral, Identifier(<<"R","o","w">>), Identifier(<<"r","o","w">>) }

NodeParents ==
    { VariableDeclarator(Identifier(<<"C","e","l","l">>)), VariableDeclarator(Identifier(<<"c","e","l","l">>)),
      VariableDeclarator(ObjectPattern(<<shorthand(<<"C","e","l","l">>)>>)),
      Parent("CallExpression"), Parent("ReturnStatement") }

\* what the body holds: no markup, <div />, or <></>, returned or nested in
\* a callback of the body
Markups == {"none", "JSXElement", "JSXFragment", "nested JSXElement"}

markupNodes(markup) ==
    CASE markup = "none" ->
            << Visited([type |-> "ReturnStatement", ref |-> 20], Parent("BlockStatement"),
                       Loc(2, 2), <<Body>>) >>
      [] markup \in {"JSXElement", "JSXFragment"} ->
            << Visited([type |-> "ReturnStatement", ref |-> 20], Parent("BlockStatement"),
                       Loc(2, 2), <<Body>>),
               Visited([type |-> markup], Parent("ReturnStatement"), Loc(2, 9),
                       returnChain(2)) >>
      [] markup = "nested JSXElement" ->
            << Visited([type |-> "JSXElement"], Parent("ArrowFunctionExpression"), Loc(2, 24),
                       << Ancestor("ArrowFunctionExpression", 21, <<>>),
                          Ancestor("VariableDeclarator", 22, <<"r","e","n","d","e","r">>),
                          Ancestor("VariableDeclaration", 23, <<>>), Body >>) >>

\* node type, id and parent as the parser can produce them together
NodeShapes ==
    { <<"FunctionDeclaration", id, parent>> :
          id \in NodeIds \ {NullLiteral}, parent \in {Program, Parent("ExportNamedDeclaration")} }
    \cup { <<"FunctionDeclaration", NullLiteral, ExportDefaultDeclaration>> }
    \cup { <<"FunctionExpression", id, parent>> : id \in NodeIds, parent \in NodeParents }
    \cup { <<"ArrowFunctionExpression", NullLiteral, parent>> : parent \in NodeParents }
    \cup { <<"ClassDeclaration", id, Program>> : id \in NodeIds \ {NullLiteral} }
    \cup { <<"ClassExpression", NullLiteral, parent>> : parent \in NodeParents }

KindNodes ==
    { Function(shape[1], shape[2], shape[3], <<>>, Loc(1, 0), markupNodes(markup)) :
          shape \in NodeShapes, markup \in Markups }

InitKinds == TreeParsed({<<n>> : n \in KindNodes}, {Undefined})

\* isReactComponent(path) of the node
Classify ==
    /\ pc = "parsed"
    /\ result' = isReactComponent(ast[1])
    /\ pc' = "checked"
    /\ UNCHANGED <<stateCalls, groups, issues, files, projectContext, fileIndex, ast,
                   ruleIssues, ruleIndex, fnIndex, componentProps, filesSkipped,
                   filesAnalyzed, reactComponentsFound, run, firstRun, nextContext>>

SpecKinds == InitKinds /\ [][Classify]_vars
---------------------------------------------------------------------------
(* avoid-redundant-state over generated components: a first state whose    *)
(* name may hold a derivable-quantity keyword, then its siblings            *)

MaxSiblings == 2

CandidateNames ==
    { <<"c","o","u","n","t">>, <<"i","t","e","m","s","C","o","u","n","t">>, <<"l","i","s","t","S","i","z","e">>, <<"t","o","t","a","l">>, <<"e","n","a","b","l","e","d">>, <<"h","i","d","d","e","n","R","o","w","s">>, <<"f","u","l","l","N","a","m","e">>,
      <<"q","u","e","r","y">> }

SiblingNames == << <<"i","t","e","m","s">>, <<"i","s","R","e","a","d","y">>, <<"t","i","t","l","e">>, <<"r","o","w","s">> >>

RedundantInits == { ArrayExpression(<<>>), BooleanLiteral(FALSE), StringLiteral(<<>>) }

\* the siblings: distinct names, in the order of SiblingNames
SiblingLists ==
    { names \in UNION { [1..n -> 1..Len(SiblingNames)] : n \in 0..MaxSiblings } :
          \A i, j \in DOMAIN names : i < j => names[i] < names[j] }

\* candidate at the position given among the siblings
RedundantComponent(candidate, init, siblings, inits, position) ==
    LET n == Len(siblings) + 1
        nameAt(k) == IF k = position THEN candidate
                     ELSE SiblingNames[siblings[IF k < position THEN k ELSE k - 1]]
        initAt(k) == IF k = position THEN init
                     ELSE inits[IF k < position THEN k ELSE k - 1]
    IN  Function("FunctionDeclaration", Identifier(<<"L","i","s","t","i","n","g">>), Program, <<>>, Loc(1, 0),
                 flatMap([k \in 1..n |-> k], LAMBDA k :
                     useStateDeclaration(nameAt(k), initAt(k), k + 1))
                 \o returnElement(n + 2))

RedundantComponents ==
    UNION { { RedundantComponent(candidate, init, siblings, inits, position) :
                  candidate \in CandidateNames, init \in RedundantInits,
                  inits \in [DOMAIN siblings -> RedundantInits],
                  position \in {1, Len(siblings) + 1} } :
            siblings \in SiblingLists }

InitRedundant == TreeParsed({<<c>> : c \in RedundantComponents}, {Undefined})

\* avoidRedundantStateRule.check on the file, with the entries checkComponent
\* extracted
CheckRedundant ==
    /\ pc = "parsed"
    /\ stateCalls' = findUseStateCalls(ast[1])
    /\ ruleIssues' = check("avoid-redundant-state", ast, files[fileIndex], projectContext)
    /\ pc' = "checked"
    /\ UNCHANGED <<groups, issues, files, projectContext, fileIndex, ast,
                   ruleIndex, fnIndex, componentProps, filesSkipped, filesAnalyzed,
                   reactComponentsFound, result, run, firstRun, nextContext>>

SpecRedundant == InitRedundant /\ [][CheckRedundant]_vars
---------------------------------------------------------------------------
(* state-vs-refs over components that use a state outside their markup     *)

UsageStateNames == { <<"l","a","b","e","l">>, <<"v","a","l","u","e">>, <<"c","o","u","n","t">>, <<"t","i","m","e","r","I","d">> }

\* where the component reads the state: in an effect, in a handler named
\* handle*, in a declaration of its body, in a helper function that returns
\* it, and in the markup the component returns
UsageSites == {"effect", "handler", "other", "helper", "markup"}

\* "use(name)" as a statement of a block with the chain given
usedIn(name, line, block) ==
    << Visited(IdentifierNode(name, FALSE, "argument"), Parent("CallExpression"),
               Loc(line, 30),
               << Ancestor("CallExpression", 10 * line + 7, <<"u","s","e">>),
                  Ancestor("ExpressionStatement", 10 * line + 6, <<>>) >> \o block) >>

\* the chain of the block of "const fnName = () => { ... }" on a line of the body
arrowChain(fnName, line) ==
    << Ancestor("BlockStatement", 10 * line + 2, <<>>),
       Ancestor("ArrowFunctionExpression", 10 * line, <<>>),
       Ancestor("VariableDeclarator", 10 * line + 3, fnName),
       Ancestor("VariableDeclaration", 10 * line + 1, <<>>), Body >>

\* the nodes one usage site adds to the component
usageSite(name, site) ==
    CASE site = "effect" -> usedIn(name, 3, effectChain(3))
      [] site = "handler" -> usedIn(name, 4, arrowChain(<<"h","a","n","d","l","e","C","l","i","c","k">>, 4))
      [] site = "other" ->
            << Visited(IdentifierNode(name, FALSE, "left"), Parent("BinaryExpression"),
                       Loc(5, 18),
                       << Ancestor("BinaryExpression", 54, <<>>),
                          Ancestor("VariableDeclarator", 53, <<"d","o","u","b","l","e","d">>),
                          Ancestor("VariableDeclaration", 51, <<>>), Body >>) >>
      [] site = "helper" ->
            << Visited([type |-> "ReturnStatement", ref |-> 65], Parent("BlockStatement"),
                       Loc(6, 25), arrowChain(<<"f","o","r","m","a","t">>, 6)),
               Visited(IdentifierNode(name, FALSE, "argument"), Parent("ReturnStatement"),
                       Loc(6, 32),
                       <<Ancestor("ReturnStatement", 65, <<>>)>> \o arrowChain(<<"f","o","r","m","a","t">>, 6)) >>
      [] site = "markup" ->
            markupUsage(name, "child", 7, <<Ancestor("JSXElement", 72, <<>>)>> \o returnChain(7))

(* 1 function Widget() {
   2   const [x, setX] = useState(0);
   3   useEffect(() => { use(x) }, []);
   4   const handleClick = () => { use(x) };
   5   const doubled = x * 2;
   6   const format = () => { return x };
   7   return <div>{x}</div>;
   8 }                                      each of the lines 3 to 7 reads x or not *)
UsageTree(name, sites) ==
    << Function("FunctionDeclaration", Identifier(<<"W","i","d","g","e","t">>), Program, <<>>, Loc(1, 0),
                stateDeclarationIn(name, 2, <<Body>>)
                \o (IF "effect" \in sites THEN usageSite(name, "effect") ELSE <<>>)
                \o (IF "handler" \in sites THEN usageSite(name, "handler") ELSE <<>>)
                \o (IF "other" \in sites THEN usageSite(name, "other") ELSE <<>>)
                \o (IF "helper" \in sites THEN usageSite(name, "helper") ELSE <<>>)
                \o returnElement(7)
                \o (IF "markup" \in sites THEN usageSite(name, "markup") ELSE <<>>)) >>

UsageTrees == {UsageTree(name, sites) : name \in UsageStateNames, sites \in SUBSET UsageSites}

InitUsage == TreeParsed(UsageTrees, {Undefined})

CheckUsage == CheckTree("state-vs-refs")

SpecUsage == InitUsage /\ [][CheckUsage]_vars
---------------------------------------------------------------------------
(* the per-state rules over a component declared inside another one        *)

\* the rules that report single state declarations
PerStateRules ==
    {"avoid-deeply-nested-state", "avoid-redundant-state", "state-vs-refs",
     "avoid-state-duplication"}

\* how the inner function is written: "function Panel() {}", "const Panel =
\* () => {}", or a helper that is no component, "const renderRow = () => {}"
NestedForms == {"FunctionDeclaration", "ArrowVariable", "helper"}

\* "{ a: { presentation: { c: 1 } } }"
DeepObject ==
    ObjectExpression(<< ObjectProperty(Identifier(<<"a">>),
        ObjectExpression(<< ObjectProperty(Identifier(<<"p","r","e","s","e","n","t","a","t","i","o","n">>),
            ObjectExpression(<< ObjectProperty(Identifier(<<"c">>), NumericLiteral(1)) >>)) >>)) >>)

\* the state the inner function declares: its name and what it starts from
InnerStates ==
    { << <<"t","i","m","e","r","I","d">>, NumericLiteral(0) >>, << <<"t","o","t","a","l","C","o","u","n","t">>, NumericLiteral(0) >>,
      << <<"s","e","t","t","i","n","g","s">>, DeepObject >>, << <<"u","s","e","r">>, ObjectLiteral(MaxObjectProperties) >> }

innerName(form) == IF form = "helper" THEN <<"r","e","n","d","e","r","R","o","w">> ELSE <<"P","a","n","e","l">>

\* the chain of the inner function's block, as the outer component sees it
innerBlock(form) ==
    IF form = "FunctionDeclaration"
    THEN << Ancestor("BlockStatement", 32, <<>>),
            Ancestor("FunctionDeclaration", 30, innerName(form)), Body >>
    ELSE arrowChain(innerName(form), 3)

\* "const [name, setName] = useState(init);" in a block with the chain given
declarationIn(name, init, line, block) ==
    LET declared == stateDeclarationIn(name, line, block)
    IN  << declared[1], declared[2],
           Visited(CallExpression(Identifier(<<"u","s","e","S","t","a","t","e">>), <<init>>), declared[3].parent,
                   declared[3].loc, declared[3].ancestors) >>

\* the nodes of the inner function, as the outer component sees them
innerNodes(form, state, rendered) ==
    LET block == innerBlock(form)
        return == <<Ancestor("ReturnStatement", 50, <<>>)>> \o block
    IN  declarationIn(state[1], state[2], 4, block)
        \o << Visited([type |-> "ReturnStatement", ref |-> 50], Parent("BlockStatement"),
                      Loc(5, 4), block),
              Visited([type |-> "JSXElement"], Parent("ReturnStatement"), Loc(5, 11),
                      return) >>
        \o (IF ~rendered THEN <<>>
            ELSE LET chain == << Ancestor("JSXExpressionContainer", 51, <<>>),
                                Ancestor("JSXElement", 52, <<>>) >> \o return
                 IN  IF isObjectExpression(state[2])
                     THEN << Visited(MemberExpression(Identifier(state[1]), Identifier(<<"i","d">>)),
                                     Parent("JSXExpressionContainer"), Loc(5, 15), chain),
                             Visited(IdentifierNode(state[1], FALSE, "object"),
                                     Parent("MemberExpression"), Loc(5, 15),
                                     <<Ancestor("MemberExpression", 55, <<>>)>> \o chain) >>
                     ELSE << Visited(IdentifierNode(state[1], FALSE, "expression"),
                                     Parent("JSXExpressionContainer"), Loc(5, 15), chain) >>)

(* 1 function Dashboard() {
   2   const [rows, setRows] = useState([]);      (or no state of its own)
   3   function Panel() {                          (or const Panel = () => {, or
   4     const [x, setX] = useState(<init>);        const renderRow = () => {)
   5     return <b>{x}</b>;                        (or <b>{x.id}</b>, or <b />)
   6   }
   7   return <div />;
   8 }                                                                        *)
NestedTree(form, state, rendered, own) ==
    LET nodes == (IF own THEN useStateDeclaration(<<"r","o","w","s">>, ArrayExpression(<<>>), 2) ELSE <<>>)
                 \o innerNodes(form, state, rendered)
                 \o returnElement(7)
    IN  << Function("FunctionDeclaration", Identifier(<<"D","a","s","h","b","o","a","r","d">>), Program, <<>>,
                    Loc(1, 0), nodes),
           IF form = "FunctionDeclaration"
           THEN Function("FunctionDeclaration", Identifier(innerName(form)),
                         Parent("BlockStatement"), <<>>, Loc(3, 2), nodesBelow(nodes, 30))
           ELSE Function("ArrowFunctionExpression", NullLiteral,
                         VariableDeclarator(Identifier(innerName(form))), <<>>,
                         Loc(3, 16), nodesBelow(nodes, 30)) >>

NestedTrees ==
    {NestedTree(form, state, rendered, own) :
        form \in NestedForms, state \in InnerStates, rendered \in BOOLEAN, own \in BOOLEAN}

InitNested == TreeParsed(NestedTrees, {Undefined})

\* one of the per-state rules checks the file; stateCalls keeps the state
\* entries of the outer component
CheckNested ==
    /\ pc = "parsed"
    /\ \E rule \in PerStateRules :
          ruleIssues' = check(rule, ast, files[fileIndex], projectContext)
    /\ stateCalls' = findUseStateCalls(ast[1])
    /\ pc' = "checked"
    /\ UNCHANGED <<groups, issues, files, projectContext, fileIndex, ast,
                   ruleIndex, fnIndex, componentProps, filesSkipped, filesAnalyzed,
                   reactComponentsFound, result, run, firstRun, nextContext>>

SpecNested == InitNested /\ [][CheckNested]_vars

---------------------------------------------------------------------------
(* analyzer.analyze *)

\* issues.push(...ruleIssues), at the wrong end: not what the source does
pushAll_Front(list, more) == more \o list

\* issues.push(...ruleIssues)
pushAll(list, more) == list \o more

\* issues.filter((i) => i.severity === severity).length, with the test left
\* out: not what the source does
countSeverity_Any(list, severity) == Len(list)

\* issues.filter((i) => i.severity === severity).length
countSeverity(list, severity) == Len(SelectSeq(list, LAMBDA i : i.severity = severity))

\* acc[key] || 0 on a record kept as its entries in insertion order
countOf(entries, key) ==
    LET entry == find(entries, LAMBDA e : e.key = key)
    IN  IF entry = <<>> THEN 0 ELSE entry.value

\* issues.reduce((acc, issue) => { acc[issue.rule] = (acc[issue.rule] || 0) + 1 }, {})
RECURSIVE byRuleFrom(_, _, _)
byRuleFrom(list, i, acc) ==
    IF i > Len(list) THEN acc
    ELSE byRuleFrom(list, i + 1, mapSet(acc, list[i].rule, countOf(acc, list[i].rule) + 1))

byRule(list) == byRuleFrom(list, 1, <<>>)

\* filesSkipped.push(file), forgotten: not what the source does
skip_Forgotten(skipped, file) == skipped

\* filesSkipped.push(file) of the catch block
skip(skipped, file) == Append(skipped, file)

InitAnalyze ==
    /\ pc = "loop"
    /\ stateCalls = <<>>
    /\ groups = <<>>
    /\ issues = <<>>
    /\ files \in FileLists
    /\ projectContext \in ProjectContexts
    /\ fileIndex = 0
    /\ ast = <<>>
    /\ ruleIndex = 0
    /\ fnIndex = 0
    /\ ruleIssues = <<>>
    /\ componentProps = <<>>
    /\ filesSkipped = <<>>
    /\ filesAnalyzed = 0
    /\ reactComponentsFound = 0
    /\ result = Undefined
    /\ run = 0
    /\ firstRun = Undefined
    /\ nextContext = Undefined

\* for (const file of files): the next file
NextFile ==
    /\ pc = "loop"
    /\ fileIndex < Len(files)
    /\ fileIndex' = fileIndex + 1
    /\ pc' = "read"
    /\ UNCHANGED <<stateCalls, groups, issues, files, projectContext, ast, ruleIndex,
                   fnIndex, ruleIssues, componentProps, filesSkipped, filesAnalyzed,
                   reactComponentsFound, result, run, firstRun, nextContext>>

\* readFile rejects: the catch block
ReadFails ==
    /\ pc = "read"
    /\ ~fileAt(files[fileIndex]).readable
    /\ filesSkipped' = skip(filesSkipped, files[fileIndex])
    /\ pc' = "loop"
    /\ UNCHANGED <<stateCalls, groups, issues, files, projectContext, fileIndex, ast,
                   ruleIndex, fnIndex, ruleIssues, componentProps, filesAnalyzed,
                   reactComponentsFound, result, run, firstRun, nextContext>>

\* readFile resolves, parse throws: the catch block
ParseFails ==
    /\ pc = "read"
    /\ fileAt(files[fileIndex]).readable
    /\ ~fileAt(files[fileIndex]).parses
    /\ filesSkipped' = skip(filesSkipped, files[fileIndex])
    /\ pc' = "loop"
    /\ UNCHANGED <<stateCalls, groups, issues, files, projectContext, fileIndex, ast,
                   ruleIndex, fnIndex, ruleIssues, componentProps, filesAnalyzed,
                   reactComponentsFound, result, run, firstRun, nextContext>>

\* readFile resolves, parse returns the tree, the components are counted
ParseFile ==
    /\ pc = "read"
    /\ fileAt(files[fileIndex]).readable
    /\ fileAt(files[fileIndex]).parses
    /\ ast' = fileAt(files[fileIndex]).tree
    /\ reactComponentsFound' = reactComponentsFound + componentsIn(ast')
    /\ ruleIndex' = 1
    /\ pc' = "rule"
    /\ UNCHANGED <<stateCalls, groups, issues, files, projectContext, fileIndex, fnIndex,
                   ruleIssues, componentProps, filesSkipped, filesAnalyzed, result,
                   run, firstRun, nextContext>>

\* rule.check(ast, file, projectContext) is entered: its locals are created
BeginCheck ==
    /\ pc = "rule"
    /\ ruleIndex <= Len(rules)
    /\ ruleIssues' = freshIssues(ruleIssues)
    /\ componentProps' = freshComponentProps(componentProps)
    /\ fnIndex' = 0
    /\ pc' = "traverse"
    /\ UNCHANGED <<stateCalls, groups, issues, files, projectContext, fileIndex, ast,
                   ruleIndex, filesSkipped, filesAnalyzed, reactComponentsFound, result,
                   run, firstRun, nextContext>>

\* the traversal of the check meets the next function of the tree
VisitFunction ==
    /\ pc = "traverse"
    /\ fnIndex < Len(ast)
    /\ fnIndex' = fnIndex + 1
    /\ ruleIssues' = visitIssues(rules[ruleIndex], ast[fnIndex'], files[fileIndex],
                                 projectContext, ruleIssues)
    /\ componentProps' = visitComponentProps(rules[ruleIndex], ast[fnIndex'], componentProps)
    /\ UNCHANGED <<pc, stateCalls, groups, issues, files, projectContext, fileIndex, ast,
                   ruleIndex, filesSkipped, filesAnalyzed, reactComponentsFound, result,
                   run, firstRun, nextContext>>

\* the traversal is over: the check returns and its issues are pushed
EndCheck ==
    /\ pc = "traverse"
    /\ fnIndex = Len(ast)
    /\ ruleIssues' = ruleIssues \o afterTraversal(rules[ruleIndex], files[fileIndex],
                                                  componentProps)
    /\ issues' = pushAll(issues, ruleIssues')
    /\ ruleIndex' = ruleIndex + 1
    /\ pc' = "rule"
    /\ UNCHANGED <<stateCalls, groups, files, projectContext, fileIndex, ast, fnIndex,
                   componentProps, filesSkipped, filesAnalyzed, reactComponentsFound,
                   result, run, firstRun, nextContext>>

\* the rules are through: filesAnalyzed++
FinishFile ==
    /\ pc = "rule"
    /\ ruleIndex > Len(rules)
    /\ filesAnalyzed' = filesAnalyzed + 1
    /\ pc' = "loop"
    /\ UNCHANGED <<stateCalls, groups, issues, files, projectContext, fileIndex, ast,
                   ruleIndex, fnIndex, ruleIssues, componentProps, filesSkipped,
                   reactComponentsFound, result, run, firstRun, nextContext>>

\* the loop is over: the statistics are computed and the result returned
Return ==
    /\ pc = "loop"
    /\ fileIndex = Len(files)
    /\ result' = [filesAnalyzed |-> filesAnalyzed,
                  filesFound |-> Len(files),
                  filesSkipped |-> filesSkipped,
                  reactComponentsFound |-> reactComponentsFound,
                  projectContext |-> projectContext,
                  issues |-> issues,
                  stats |-> [errors |-> countSeverity(issues, "error"),
                             warnings |-> countSeverity(issues, "warning"),
                             info |-> countSeverity(issues, "info"),
                             byRule |-> byRule(issues)]]
    /\ pc' = "returned"
    /\ UNCHANGED <<stateCalls, groups, issues, files, projectContext, fileIndex, ast,
                   ruleIndex, fnIndex, ruleIssues, componentProps, filesSkipped,
                   filesAnalyzed, reactComponentsFound, run, firstRun, nextContext>>

Next ==
    \/ NextFile
    \/ ReadFails
    \/ ParseFails
    \/ ParseFile
    \/ BeginCheck
    \/ VisitFunction
    \/ EndCheck
    \/ FinishFile
    \/ Return

Spec == InitAnalyze /\ [][Next]_vars
---------------------------------------------------------------------------
(* The rule set run twice over one tree: what a caller of Rule.check sees *)

\* the trees a parser hands to the rules
ParsedFiles == SelectSeq(ProjectFiles, LAMBDA f : f.readable /\ f.parses)

InitRules ==
    /\ pc = "rule"
    /\ stateCalls = <<>>
    /\ groups = <<>>
    /\ issues = <<>>
    /\ \E k \in DOMAIN ParsedFiles :
          /\ files = <<ParsedFiles[k].name>>
          /\ ast = ParsedFiles[k].tree
    /\ projectContext \in RuleContexts
    /\ nextContext \in RuleContexts
    /\ fileIndex = 1
    /\ ruleIndex = 1
    /\ fnIndex = 0
    /\ ruleIssues = <<>>
    /\ componentProps = <<>>
    /\ filesSkipped = <<>>
    /\ filesAnalyzed = 0
    /\ reactComponentsFound = 0
    /\ result = Undefined
    /\ run = 1
    /\ firstRun = Undefined

\* the first run of "for (const rule of rules)" is over: the same tree and
\* file name go through the rules again, with the context of the second run
NextRun ==
    /\ pc = "rule"
    /\ run = 1
    /\ ruleIndex > Len(rules)
    /\ firstRun' = [issues |-> issues, context |-> projectContext]
    /\ issues' = <<>>
    /\ projectContext' = nextContext
    /\ ruleIndex' = 1
    /\ run' = 2
    /\ UNCHANGED <<pc, stateCalls, groups, files, fileIndex, ast, fnIndex, ruleIssues,
                   componentProps, filesSkipped, filesAnalyzed, reactComponentsFound,
                   result, nextContext>>

\* the second run is over
RunsDone ==
    /\ pc = "rule"
    /\ run = 2
    /\ ruleIndex > Len(rules)
    /\ pc' = "done"
    /\ UNCHANGED <<stateCalls, groups, issues, files, projectContext, fileIndex, ast,
                   ruleIndex, fnIndex, ruleIssues, componentProps, filesSkipped,
                   filesAnalyzed, reactComponentsFound, result, run, firstRun, nextContext>>

NextRules ==
    \/ BeginCheck
    \/ VisitFunction
    \/ EndCheck
    \/ NextRun
    \/ RunsDone

SpecRules == InitRules /\ [][NextRules]_vars
---------------------------------------------------------------------------
(* analyzer.analyze when the check of a rule throws                        *)

\* the files of the runs in which a check may throw: one that the rules
\* report issues for, one that cannot be read, one that does not parse
ThrowFiles == {"/project/src/Form.tsx", "/project/src/Locked.tsx", "/project/src/Invalid.tsx"}

\* the rules whose check may throw: the first, one in the middle and the last
ThrowingRules == {1, 5, Len(rules)}

InitThrow ==
    /\ InitAnalyze
    /\ \A k \in DOMAIN files : files[k] \in ThrowFiles

\* rule.check throws inside the try block (a RangeError of its nested
\* traversals, say): the catch block pushes the file to filesSkipped and the
\* loop goes on to the next file; what the earlier rules pushed stays in issues
RuleThrows ==
    /\ pc = "traverse"
    /\ ruleIndex \in ThrowingRules
    /\ filesSkipped' = skip(filesSkipped, files[fileIndex])
    /\ pc' = "loop"
    /\ UNCHANGED <<stateCalls, groups, issues, files, projectContext, fileIndex, ast,
                   ruleIndex, fnIndex, ruleIssues, componentProps, filesAnalyzed,
                   reactComponentsFound, result, run, firstRun, nextContext>>

NextThrow ==
    \/ NextFile
    \/ ReadFails
    \/ ParseFails
    \/ ParseFile
    \/ BeginCheck
    \/ VisitFunction
    \/ EndCheck
    \/ RuleThrows
    \/ FinishFile
    \/ Return

SpecThrow == InitThrow /\ [][NextThrow]_vars
---------------------------------------------------------------------------
(* Properties of the rule set, checked under SpecRules *)

\* a component without any state entry
declaresNoState(fn) == isReactComponent(fn) /\ findUseStateCalls(fn) = <<>>

\* the rules that work from the state entries findUseStateCalls extracts
StateReadingRules ==
    {rules[k] : k \in DOMAIN rules} \ {"detect-state-in-useeffect", "detect-prop-drilling"}

\* C1 as stated: for every component that declares zero state entries each of
\* the ten rules returns an empty issue list for it: no visit of such a
\* component pushes an issue, and a tree made of such components gets none
\* once the traversal is over either.
C1_EveryRuleSilentWithoutState ==
    [][/\ (VisitFunction /\ declaresNoState(ast[fnIndex'])) => ruleIssues' = ruleIssues
       /\ (EndCheck /\ \A k \in DOMAIN ast : isReactComponent(ast[k]) => declaresNoState(ast[k]))
              => ruleIssues' = ruleIssues]_vars

\* C1, amended: for every component that declares zero state entries, each of
\* the eight rules that read the state entries (all but detect-state-in-useeffect
\* and detect-prop-drilling) returns an empty issue list for it, whatever
\* props, effects, setter-like calls or JSX forwarding it contains.
C1_StateReadingRulesSilentWithoutState ==
    [][/\ (VisitFunction /\ declaresNoState(ast[fnIndex'])
                         /\ rules[ruleIndex] \in StateReadingRules)
              => ruleIssues' = ruleIssues
       /\ (EndCheck /\ rules[ruleIndex] \in StateReadingRules
                    /\ \A k \in DOMAIN ast : isReactComponent(ast[k]) => declaresNoState(ast[k]))
              => ruleIssues' = ruleIssues]_vars

\* a stateless component with props, an effect and a setter-like call in it
\* has just been visited by a rule that reads state entries, and one of the
\* two other rules has reported on the same tree
C1_Witness ==
    /\ run = 1
    /\ pc = "traverse"
    /\ fnIndex > 0
    /\ rules[ruleIndex] = "server-vs-client-state"
    /\ declaresNoState(ast[fnIndex])
    /\ extractProps(ast[fnIndex]) # <<>>
    /\ findUseEffectCalls(ast[fnIndex]) # <<>>
    /\ \E e \in DOMAIN findUseEffectCalls(ast[fnIndex]) :
          findSettersInEffect(ast[fnIndex], findUseEffectCalls(ast[fnIndex])[e]) # <<>>
    /\ ruleIssues = <<>>
    /\ \E i \in DOMAIN issues : issues[i].rule = "detect-prop-drilling"
    /\ \E i \in DOMAIN issues : issues[i].rule = "detect-state-in-useeffect"

\* C2: running the full rule set twice on the same tree, file name and project
\* context yields two identical issue lists, and what each invocation of a
\* rule returns is a function of the tree, the file name and the context
\* alone, whatever ran before it.
C2_RunsAreIdentical ==
    /\ (pc = "rule" /\ ruleIndex > 1)
          => ruleIssues = check(rules[ruleIndex - 1], ast, files[fileIndex], projectContext)
    /\ (pc = "done" /\ firstRun.context = projectContext) => firstRun.issues = issues

\* both runs are over, under one context, and they reported issues of several rules
C2_Witness ==
    /\ pc = "done"
    /\ firstRun.context = projectContext
    /\ \E i, j \in DOMAIN issues : issues[i].rule # issues[j].rule

\* the fields of an issue that detection decides
detected(issue) ==
    [rule |-> issue.rule, severity |-> issue.severity, message |-> issue.message,
     file |-> issue.file, line |-> issue.line, column |-> issue.column,
     fixable |-> issue.fixable]

\* C6: the project context never changes detection: two runs of the rules over
\* one tree and file name, under any two contexts (absent, or any ProjectContext),
\* yield lists of the same length whose corresponding issues agree on rule,
\* severity, message, file, line, column and fixable.
C6_ContextLeavesDetectionAlone ==
    pc = "done" =>
        /\ Len(firstRun.issues) = Len(issues)
        /\ \A i \in DOMAIN issues : detected(firstRun.issues[i]) = detected(issues[i])

\* one run without a context and one with XState in the project: an issue
\* came out of both, with two different suggestions
C6_Witness ==
    /\ pc = "done"
    /\ firstRun.context = Undefined
    /\ projectContext # Undefined
    /\ projectContext.hasXState
    /\ \E i \in DOMAIN issues :
          /\ detected(firstRun.issues[i]) = detected(issues[i])
          /\ firstRun.issues[i].suggestion # issues[i].suggestion

---------------------------------------------------------------------------
(* Properties of analyzer.analyze, checked under Spec *)

\* did the read or the parse of the file fail
fails(name) == ~fileAt(name).readable \/ ~fileAt(name).parses

\* the place of an issue in the order of the run: its file, then its rule
fileRank(issue) == findIndex(files, LAMBDA f : f = issue.file)
ruleRank(issue) == findIndex(rules, LAMBDA r : r = issue.rule)

\* the issues of a list that one rule raised about one file
issuesOf(list, file, rule) == SelectSeq(list, LAMBDA i : i.file = file /\ i.rule = rule)

\* C3: the issue list is in rule-then-discovery order: files in the order of
\* the file list, within a file the rules in registry order, within a rule
\* the order in which the rule produced its issues; nothing reorders the list
\* on the way to the result.
C3_RuleThenDiscoveryOrder ==
    /\ \A i, j \in DOMAIN issues :
          i < j => /\ fileRank(issues[i]) >= 1
                   /\ ruleRank(issues[i]) >= 1
                   /\ fileRank(issues[i]) <= fileRank(issues[j])
                   /\ fileRank(issues[i]) = fileRank(issues[j])
                          => ruleRank(issues[i]) <= ruleRank(issues[j])
    /\ pc = "returned" =>
          /\ result.issues = issues
          /\ \A f \in DOMAIN files : \A r \in DOMAIN rules :
                issuesOf(result.issues, files[f], rules[r])
                    = IF fails(files[f]) THEN <<>>
                      ELSE check(rules[r], fileAt(files[f]).tree, files[f], projectContext)

\* the result holds issues of two files, of two rules about one file, and two
\* issues of one rule about one file
C3_Witness ==
    /\ pc = "returned"
    /\ \E i, j \in DOMAIN result.issues : result.issues[i].file # result.issues[j].file
    /\ \E i, j \in DOMAIN result.issues :
          /\ result.issues[i].file = result.issues[j].file
          /\ result.issues[i].rule # result.issues[j].rule
    /\ \E i, j \in DOMAIN result.issues :
          /\ i # j
          /\ result.issues[i].file = result.issues[j].file
          /\ result.issues[i].rule = result.issues[j].rule

\* how many issues of a list pass a test
howMany(list, Test(_)) == Cardinality({i \in DOMAIN list : Test(list[i])})

\* C4: the statistics of a result are derivable from its issue list: the three
\* counts add up to issues.length, each is the number of issues of its
\* severity, byRule[r] is the number of issues of rule r, byRule has no key
\* with count 0, and an empty file list gives three zeros and no issue.
C4_StatsFollowFromIssues ==
    pc = "returned" =>
        LET stats == result.stats
            list == result.issues
        IN  /\ stats.errors + stats.warnings + stats.info = Len(list)
            /\ stats.errors = howMany(list, LAMBDA i : i.severity = "error")
            /\ stats.warnings = howMany(list, LAMBDA i : i.severity = "warning")
            /\ stats.info = howMany(list, LAMBDA i : i.severity = "info")
            /\ \A i \in DOMAIN list : \E e \in DOMAIN stats.byRule :
                  stats.byRule[e].key = list[i].rule
            /\ \A e \in DOMAIN stats.byRule :
                  /\ stats.byRule[e].value = howMany(list, LAMBDA i : i.rule = stats.byRule[e].key)
                  /\ stats.byRule[e].value > 0
                  /\ \A d \in DOMAIN stats.byRule : d # e => stats.byRule[d].key # stats.byRule[e].key
            /\ files = <<>> => /\ list = <<>>
                               /\ stats.errors = 0 /\ stats.warnings = 0 /\ stats.info = 0
                               /\ stats.byRule = <<>>

\* a result with errors, warnings and infos, and a rule counted more than once
C4_Witness ==
    /\ pc = "returned"
    /\ result.stats.errors > 0
    /\ result.stats.warnings > 0
    /\ result.stats.info > 0
    /\ \E e \in DOMAIN result.stats.byRule : result.stats.byRule[e].value > 1

\* a step of analyze applies: the loop has a next file or returns, a file
\* read is followed by a parse or the catch block, a rule or the end of the
\* file follows a rule, the traversal goes on or ends
someStepApplies ==
    \/ (pc = "loop" /\ (fileIndex < Len(files) \/ fileIndex = Len(files)))
    \/ (pc = "read" /\ fileIndex \in DOMAIN files
                    /\ (fails(files[fileIndex]) \/ fileAt(files[fileIndex]).parses))
    \/ (pc = "rule" /\ (ruleIndex \in DOMAIN rules \/ ruleIndex > Len(rules)))
    \/ (pc = "traverse" /\ (fnIndex < Len(ast) \/ fnIndex = Len(ast)))

\* C5: a file whose read or parse fails is recorded as skipped, does not
\* increment filesAnalyzed and contributes no issue; the loop goes on with
\* every later file, which is read, parsed and checked; analyze is never
\* stopped before it returns, and at the end filesAnalyzed + |filesSkipped|
\* = filesFound.
C5_FailuresAreSkipped ==
    /\ \A i \in DOMAIN issues : ~fails(issues[i].file)
    /\ pc = "loop" =>
          /\ filesSkipped = SelectSeq(SubSeq(files, 1, fileIndex), fails)
          /\ filesAnalyzed = Len(SelectSeq(SubSeq(files, 1, fileIndex), LAMBDA f : ~fails(f)))
    /\ pc # "returned" => someStepApplies
    /\ pc = "returned" =>
          /\ result.filesSkipped = SelectSeq(files, fails)
          /\ result.filesAnalyzed = Len(SelectSeq(files, LAMBDA f : ~fails(f)))
          /\ result.filesAnalyzed + Len(result.filesSkipped) = result.filesFound
          /\ result.filesFound = Len(files)
          /\ \A i \in DOMAIN result.issues : ~fails(result.issues[i].file)
          /\ \A f \in DOMAIN files : \A r \in DOMAIN rules :
                ~fails(files[f]) =>
                    issuesOf(result.issues, files[f], rules[r])
                        = check(rules[r], fileAt(files[f]).tree, files[f], projectContext)

\* the first file failed, and the file after it was analyzed and has issues
C5_Witness ==
    /\ pc = "returned"
    /\ Len(files) = 2
    /\ fails(files[1])
    /\ result.filesSkipped = <<files[1]>>
    /\ result.filesAnalyzed = 1
    /\ \E i \in DOMAIN result.issues : result.issues[i].file = files[2]

\* C7: every issue carries a valid 1-based position: line >= 1 and column >= 1.
C7_PositionsAreOneBased ==
    \A i \in DOMAIN issues : issues[i].line >= 1 /\ issues[i].column >= 1
---------------------------------------------------------------------------
(* avoid-state-duplication: what the rule reports for a component          *)

\* the component Rule.check was given, and its state entries
DupChecked == ast[1]

DupEntries == findUseStateCalls(DupChecked)

\* the names of the destructured first parameter
DestructuredNames ==
    IF DupChecked.params # <<>> /\ isObjectPattern(DupChecked.params[1])
    THEN {DupChecked.params[1].properties[k].key.name :
            k \in DOMAIN DupChecked.params[1].properties}
    ELSE {}

\* the member accesses "P.x" on the identifier first parameter P
ParameterReads ==
    IF DupChecked.params # <<>> /\ isIdentifier(DupChecked.params[1])
    THEN {k \in DOMAIN DupChecked.visited :
            LET node == DupChecked.visited[k].node
            IN  /\ node.type = "MemberExpression"
                /\ node.object.type = "Identifier"
                /\ node.object.name = DupChecked.params[1].name}
    ELSE {}

\* the props the rule records for the component
RecordedProps ==
    DestructuredNames \cup {DupChecked.visited[k].node.property.name : k \in ParameterReads}

\* the component reads a prop in what it returns
UsesPropsDirectly ==
    \E k \in DOMAIN DupChecked.visited :
        LET v == DupChecked.visited[k]
        IN  /\ \E a \in DOMAIN v.ancestors : v.ancestors[a].type = "ReturnStatement"
            /\ \/ v.node.type = "Identifier" /\ v.node.name \in DestructuredNames
               \/ k \in ParameterReads

IsPropsMember(init) ==
    /\ init.type = "MemberExpression"
    /\ init.object.type = "Identifier"
    /\ init.object.name = <<"p","r","o","p","s">>

\* the initializers the duplication rule's contract names
NamesDestructuredProp(init) == init.type = "Identifier" /\ init.name \in DestructuredNames

NamesRecordedProp(init) == init.type = "Identifier" /\ init.name \in RecordedProps

ReadsRecordedProp(init) == IsPropsMember(init) /\ init.property.name \in RecordedProps

\* the "initialized from prop" issues reported for a state name
FromPropIssues(name) ==
    {k \in DOMAIN ruleIssues :
        /\ ruleIssues[k].message.template
             = "State '{name}' is initialized from prop '{prop}', which can cause synchronization issues"
        /\ ruleIssues[k].message.parts[1] = name}

\* C11 as stated: a state entry starting from an identifier of the
\* destructured parameter, or from props.x with x a recorded prop, gets
\* exactly one "initialized from prop" warning; a component that reads its
\* props in what it returns and has no such entry gets no such issue.
C11_OnlyDestructuredOrPropsMember ==
    pc = "checked" =>
        /\ \A e \in DOMAIN DupEntries :
              NamesDestructuredProp(DupEntries[e].initialValue)
                  \/ ReadsRecordedProp(DupEntries[e].initialValue)
              => Cardinality(FromPropIssues(DupEntries[e].name)) = 1
        /\ ( /\ UsesPropsDirectly
             /\ \A e \in DOMAIN DupEntries :
                   ~ ( NamesDestructuredProp(DupEntries[e].initialValue)
                       \/ ReadsRecordedProp(DupEntries[e].initialValue) ) )
           => \A e \in DOMAIN DupEntries : FromPropIssues(DupEntries[e].name) = {}

\* C11, amended: a state entry gets exactly one "initialized from prop"
\* issue, of severity warning, when its initializer is an identifier equal to
\* a recorded prop name (a key of the destructured parameter, or a name read
\* as P.x from the identifier parameter P) or is props.x with x recorded; every
\* other entry gets none.
C11_OneWarningPerPropInitializedState ==
    pc = "checked" =>
        \A e \in DOMAIN DupEntries :
            LET from == FromPropIssues(DupEntries[e].name)
            IN  /\ \A k \in from : ruleIssues[k].severity = "warning"
                /\ Cardinality(from)
                     = IF NamesRecordedProp(DupEntries[e].initialValue)
                          \/ ReadsRecordedProp(DupEntries[e].initialValue)
                       THEN 1 ELSE 0

\* two entries of a component with an identifier parameter: one starts from
\* props.x and is reported once, the other from p-like free names and is not
C11_Witness ==
    /\ pc = "checked"
    /\ Len(DupEntries) = 2
    /\ ReadsRecordedProp(DupEntries[1].initialValue)
    /\ NamesRecordedProp(DupEntries[2].initialValue)
    /\ ~ NamesDestructuredProp(DupEntries[2].initialValue)
    /\ Cardinality(FromPropIssues(DupEntries[1].name)) = 1
    /\ Cardinality(FromPropIssues(DupEntries[2].name)) = 1
    /\ Len(ruleIssues) = 2

\* the distinct properties of a state read as "name.prop" in the component
AccessedProperties(name) ==
    {DupChecked.visited[k].node.property.name :
        k \in {j \in DOMAIN DupChecked.visited :
                 LET node == DupChecked.visited[j].node
                 IN  /\ node.type = "MemberExpression"
                     /\ node.object.type = "Identifier"
                     /\ node.object.name = name
                     /\ node.property.type = "Identifier"}}

\* the over-broad-storage issues reported for a state name
StoresIssues(name) ==
    {k \in DOMAIN ruleIssues :
        /\ ruleIssues[k].message.template
             = "State '{name}' stores {n} properties but only uses {used}"
        /\ ruleIssues[k].message.parts[1] = name}

\* C12: a state entry starting from an object literal of more than 3
\* properties gets an info issue exactly when the distinct properties read as
\* name.prop are at most 2 and fewer than half the literal's properties.
C12_ReportedIffFewPropertiesRead ==
    pc = "checked" =>
        \A e \in DOMAIN DupEntries :
            LET init == DupEntries[e].initialValue
                used == Cardinality(AccessedProperties(DupEntries[e].name))
            IN  init.type = "ObjectExpression" /\ Len(init.properties) > 3
                => ( (\E k \in StoresIssues(DupEntries[e].name) :
                          ruleIssues[k].severity = "info")
                     <=> (used <= 2 /\ 2 * used < Len(init.properties)) )
---------------------------------------------------------------------------
(* prefer-explicit-transitions: what the rule reports for a component      *)

ExplicitChecked == ast[1]

\* the component calls useReducer somewhere
ContainsUseReducer ==
    \E k \in DOMAIN ExplicitChecked.visited :
        LET node == ExplicitChecked.visited[k].node
        IN  /\ node.type = "CallExpression"
            /\ node.callee.type = "Identifier"
            /\ node.callee.name = <<"u","s","e","R","e","d","u","c","e","r">>

\* C13: no issue for a component that calls useReducer, whatever its states
\* and updates; otherwise at most one issue, at the component's function node.
C13_ReducerComponentsAreSkipped ==
    pc = "checked" =>
        /\ ContainsUseReducer => ruleIssues = <<>>
        /\ Len(ruleIssues) <= 1
        /\ \A k \in DOMAIN ruleIssues :
              /\ ruleIssues[k].line = ExplicitChecked.loc.line
              /\ ruleIssues[k].column = ExplicitChecked.loc.column

\* a component with a reducer, eight states and setters updated together
\* from their previous values goes unreported
C13_Witness ==
    /\ pc = "checked"
    /\ ContainsUseReducer
    /\ Len(stateCalls) >= 8
    /\ \E k \in DOMAIN ExplicitChecked.visited :
          LET node == ExplicitChecked.visited[k].node
          IN  /\ node.type = "CallExpression"
              /\ node.arguments # <<>>
              /\ node.arguments[1].type = "ArrowFunctionExpression"
    /\ ruleIssues = <<>>

\* the setters whose pattern passes a test
SettersWith(Test(_)) == Len(SelectSeq(result.patterns, Test))

Classified == pc = "checked" /\ result # Undefined

\* C14 as stated: 'complex' exactly when there are 8 states or more, or 3
\* setters or more each with 2 siblings or more and a previous-value
\* dependency, or 3 setters or more each with 2 conditional updates or more
\* while there are 4 states or more.
C14_ComplexIffTwoSiblings ==
    Classified =>
        ( result.complexity = "complex"
          <=> \/ Len(stateCalls) >= 8
              \/ SettersWith(LAMBDA p : Len(p.updatesWithOthers) >= 2 /\ p.dependsOnPrevState) >= 3
              \/ /\ SettersWith(LAMBDA p : p.conditionalUpdates >= 2) >= 3
                 /\ Len(stateCalls) >= 4 )

\* C14, amended: the second case asks each of the 3 setters for one sibling
\* or more, not two.
C14_ComplexIffOneSibling ==
    Classified =>
        ( result.complexity = "complex"
          <=> \/ Len(stateCalls) >= 8
              \/ SettersWith(LAMBDA p : Len(p.updatesWithOthers) >= 1 /\ p.dependsOnPrevState) >= 3
              \/ /\ SettersWith(LAMBDA p : p.conditionalUpdates >= 2) >= 3
                 /\ Len(stateCalls) >= 4 )

\* fewer than 8 states, three functional setters with one sibling each
C14_Witness ==
    /\ Classified
    /\ Len(stateCalls) < 8
    /\ SettersWith(LAMBDA p : Len(p.updatesWithOthers) = 1 /\ p.dependsOnPrevState) >= 3
    /\ SettersWith(LAMBDA p : Len(p.updatesWithOthers) >= 2) = 0
    /\ SettersWith(LAMBDA p : p.conditionalUpdates >= 2) = 0
    /\ result.complexity = "complex"

\* no setter of the component is called
NoUpdates == \A k \in DOMAIN result.patterns : result.patterns[k].updateLocations = <<>>

\* C15 as stated: a component that is not 'complex' is 'moderate' exactly
\* when it has 4 states or more, or 2 setters or more with 2 siblings or more
\* each, or 2 setters or more with 2 conditional updates or more each while it
\* has 3 states or more; otherwise it is 'simple' and nothing is reported (4
\* states and no update: exactly one issue; at most 3 and no setter call: none).
C15_ModerateIffThreeTests ==
    Classified /\ result.complexity # "complex" =>
        /\ result.complexity = "moderate"
           <=> \/ Len(stateCalls) >= 4
               \/ SettersWith(LAMBDA p : Len(p.updatesWithOthers) >= 2) >= 2
               \/ /\ SettersWith(LAMBDA p : p.conditionalUpdates >= 2) >= 2
                  /\ Len(stateCalls) >= 3
        /\ result.complexity \in {"moderate", "simple"}
        /\ result.complexity = "simple" => ruleIssues = <<>>
        /\ Len(stateCalls) = 4 /\ NoUpdates => Len(ruleIssues) = 1
        /\ Len(stateCalls) <= 3 /\ NoUpdates => ruleIssues = <<>>

\* C15, amended: 'moderate' has a fourth case, 2 setters or more each with a
\* previous-value dependency and one sibling or more; a 'simple' component is
\* not reported and a 'moderate' one is reported once.
C15_ModerateIffFourTests ==
    Classified /\ result.complexity # "complex" =>
        /\ result.complexity = "moderate"
           <=> \/ Len(stateCalls) >= 4
               \/ SettersWith(LAMBDA p : Len(p.updatesWithOthers) >= 2) >= 2
               \/ /\ SettersWith(LAMBDA p : p.conditionalUpdates >= 2) >= 2
                  /\ Len(stateCalls) >= 3
               \/ SettersWith(LAMBDA p : Len(p.updatesWithOthers) >= 1 /\ p.dependsOnPrevState) >= 2
        /\ result.complexity \in {"moderate", "simple"}
        /\ result.complexity = "simple" => ruleIssues = <<>>
        /\ result.complexity = "moderate" => Len(ruleIssues) = 1
        /\ Len(stateCalls) = 4 /\ NoUpdates => Len(ruleIssues) = 1
        /\ Len(stateCalls) <= 3 /\ NoUpdates => ruleIssues = <<>>

\* two states, both set from their previous value in one handler: reported
C15_Witness ==
    /\ Classified
    /\ Len(stateCalls) = 2
    /\ SettersWith(LAMBDA p : Len(p.updatesWithOthers) = 1 /\ p.dependsOnPrevState) = 2
    /\ result.complexity = "moderate"
    /\ Len(ruleIssues) = 1

\* C16 as stated: without a project context every issue has severity info
\* and a suggestion that mentions useReducer and contains 'explicit and
\* predictable', for the moderate and for the complex classification.
C16_SuggestionAlwaysExplicitAndPredictable ==
    pc = "checked" /\ projectContext = Undefined =>
        \A k \in DOMAIN ruleIssues :
            /\ ruleIssues[k].severity = "info"
            /\ includes(ruleIssues[k].suggestion.template, <<"u","s","e","R","e","d","u","c","e","r">>)
            /\ includes(ruleIssues[k].suggestion.template, <<"e","x","p","l","i","c","i","t"," ","a","n","d"," ","p","r","e","d","i","c","t","a","b","l","e">>)

\* C16, amended: without a project context every issue has severity info and
\* a suggestion that mentions useReducer; the suggestion contains 'explicit
\* and predictable' for the moderate classification and not for the complex.
C16_SuggestionNamesUseReducer ==
    pc = "checked" /\ projectContext = Undefined =>
        \A k \in DOMAIN ruleIssues :
            /\ ruleIssues[k].severity = "info"
            /\ includes(ruleIssues[k].suggestion.template, <<"u","s","e","R","e","d","u","c","e","r">>)
            /\ includes(ruleIssues[k].suggestion.template, <<"e","x","p","l","i","c","i","t"," ","a","n","d"," ","p","r","e","d","i","c","t","a","b","l","e">>)
               <=> result.complexity = "moderate"

\* a complex component reported without a context
C16_Witness ==
    /\ Classified
    /\ projectContext = Undefined
    /\ result.complexity = "complex"
    /\ Len(ruleIssues) = 1
    /\ includes(ruleIssues[1].suggestion.template, <<"u","s","e","R","e","d","u","c","e","r">>)
    /\ ~ includes(ruleIssues[1].suggestion.template, <<"e","x","p","l","i","c","i","t"," ","a","n","d"," ","p","r","e","d","i","c","t","a","b","l","e">>)
---------------------------------------------------------------------------
(* detect-state-in-useeffect: which setter calls of an effect are reported *)

EffectChecked == ast[1]

\* the function a node belongs to is the callback given to useEffect
OwnFunctionIsEffect(k) ==
    LET chain == EffectChecked.visited[k].ancestors
        first == CHOOSE a \in DOMAIN chain :
                    /\ chain[a].type = "ArrowFunctionExpression"
                    /\ \A b \in 1..(a - 1) : chain[b].type # "ArrowFunctionExpression"
    IN  chain[first + 1].name = <<"u","s","e","E","f","f","e","c","t">>

\* the nodes inside the callback of the component's effect
InEffect ==
    {k \in DOMAIN EffectChecked.visited :
        LET chain == EffectChecked.visited[k].ancestors
        IN  \E a \in 1..(Len(chain) - 1) :
                /\ chain[a].type = "ArrowFunctionExpression"
                /\ chain[a + 1].name = <<"u","s","e","E","f","f","e","c","t">>}

\* the node is one of the external operations the rule's contract lists
IsExternalMarker(k) ==
    LET node == EffectChecked.visited[k].node
    IN  \/ /\ node.type = "CallExpression"
           /\ node.callee.type = "Identifier"
           /\ node.callee.name \in {<<"f","e","t","c","h">>, <<"s","e","t","T","i","m","e","o","u","t">>, <<"s","e","t","I","n","t","e","r","v","a","l">>, <<"a","d","d","E","v","e","n","t","L","i","s","t","e","n","e","r">>}
        \/ /\ node.type = "CallExpression"
           /\ node.callee.type = "MemberExpression"
           /\ node.callee.object.type = "Identifier"
           /\ node.callee.object.name
                \in {<<"l","o","c","a","l","S","t","o","r","a","g","e">>, <<"s","e","s","s","i","o","n","S","t","o","r","a","g","e">>, <<"n","a","v","i","g","a","t","o","r">>, <<"w","i","n","d","o","w">>, <<"d","o","c","u","m","e","n","t">>}
        \/ /\ node.type = "CallExpression"
           /\ node.callee.type = "MemberExpression"
           /\ node.callee.property.type = "Identifier"
           /\ node.callee.property.name \in {<<"t","h","e","n">>, <<"c","a","t","c","h">>, <<"f","i","n","a","l","l","y">>}
        \/ node.type = "AwaitExpression"
        \/ node.type = "ReturnStatement" /\ OwnFunctionIsEffect(k)

EffectHasMarker == \E k \in InEffect : IsExternalMarker(k)

\* the setter calls inside the effect: callee set + an upper-case letter
SetterSites ==
    {k \in InEffect :
        LET node == EffectChecked.visited[k].node
        IN  /\ node.type = "CallExpression"
            /\ node.callee.type = "Identifier"
            /\ Len(node.callee.name) > 3
            /\ SubSeq(node.callee.name, 1, 3) = <<"s","e","t">>
            /\ IsUpperChar(node.callee.name[4])}

\* the site is reported
Flagged(k) ==
    \E i \in DOMAIN ruleIssues :
        /\ ruleIssues[i].line = EffectChecked.visited[k].loc.line
        /\ ruleIssues[i].column = EffectChecked.visited[k].loc.column

\* the state name a setter implies names a derived quantity
ImpliesDerivedName(k) ==
    LET name == toLowerCase(SubSeq(EffectChecked.visited[k].node.callee.name, 4,
                                   Len(EffectChecked.visited[k].node.callee.name)))
    IN  \E p \in DOMAIN derivedPatterns : includes(name, derivedPatterns[p])

PassesComputation(k) ==
    /\ EffectChecked.visited[k].node.arguments # <<>>
    /\ containsComputation(EffectChecked.visited[k].node.arguments[1])

\* C17: a setter call anywhere inside an effect's callback, in its body or in
\* a function nested in it, is never reported when the effect holds an
\* external-operation marker; it is reported only when the effect holds none
\* and the implied state name is a derived one or the argument computes.
C17_MarkedEffectsAreNeverFlagged ==
    pc = "checked" =>
        \A k \in SetterSites :
            Flagged(k) => /\ ~ EffectHasMarker
                          /\ ImpliesDerivedName(k) \/ PassesComputation(k)
---------------------------------------------------------------------------
(* state-vs-refs: states the returned markup refers to                     *)

\* the component's body is the markup itself: the element it returns hangs
\* directly below the arrow function
BodyIsMarkup(fn) ==
    \E k \in DOMAIN fn.visited :
        /\ fn.visited[k].node.type = "JSXElement"
        /\ fn.visited[k].parent.type = "ArrowFunctionExpression"
        /\ fn.visited[k].ancestors = <<>>

\* the node lies below a return statement of the component itself
BelowOwnReturn(v) ==
    \E a \in DOMAIN v.ancestors :
        /\ v.ancestors[a].type = "ReturnStatement"
        /\ \A b \in (a + 1)..Len(v.ancestors) :
              v.ancestors[b].type \notin {"FunctionDeclaration", "FunctionExpression",
                                          "ArrowFunctionExpression"}

\* the node reads the variable named: an identifier that is no declaration,
\* or the tag of an element (a capitalised tag names a variable)
ReadsVariable(node, name) ==
    \/ node.type = "Identifier" /\ node.name = name /\ ~node.binding
    \/ node.type = "JSXIdentifier" /\ node.name = name /\ IsUpperChar(name[1])

\* the value of the state is referenced inside the markup the component returns
ReferencedInMarkup(fn, name) ==
    \E k \in DOMAIN fn.visited :
        /\ ReadsVariable(fn.visited[k].node, name)
        /\ BodyIsMarkup(fn) \/ BelowOwnReturn(fn.visited[k])

\* the state entry is reported
RefFlagged(entry) ==
    \E i \in DOMAIN ruleIssues :
        /\ ruleIssues[i].line = entry.loc.line
        /\ ruleIssues[i].column = entry.loc.column

\* C18: a state entry whose value is referenced inside the markup its
\* component returns is never reported, whether the component is a function
\* declaration, a function expression, an arrow function with a block or an
\* arrow function whose body is the markup, and whatever the state's name.
C18_RenderedStateIsNeverFlagged ==
    pc = "checked" =>
        \A f \in DOMAIN ast :
            \A e \in DOMAIN findUseStateCalls(ast[f]) :
                ReferencedInMarkup(ast[f], findUseStateCalls(ast[f])[e].name)
                => ~ RefFlagged(findUseStateCalls(ast[f])[e])
---------------------------------------------------------------------------
(* Claims about detect-prop-drilling *)

DrillChecked == pc = "checked" /\ projectContext = Undefined /\ Len(ast) >= 1
                /\ ast[1].id = Identifier(DrillNames[1])

\* the prop names the components of the files handle
HandledNames == DrillProps \cup { <<"i","d">> }

\* the places where a component reads the prop: the identifier bound by the
\* destructured parameter, or the member of the identifier parameter
PropReads(fn, name) ==
    IF isObjectPattern(fn.params[1])
    THEN SelectSeq(fn.visited, LAMBDA v :
             /\ v.node.type = "Identifier" /\ v.node.name = name
             /\ v.parent.type \notin {"ObjectProperty", "MemberExpression"})
    ELSE SelectSeq(fn.visited, LAMBDA v :
             /\ v.node.type = "MemberExpression"
             /\ v.node.object = Identifier(fn.params[1].name)
             /\ v.node.property = Identifier(name))

\* the read is the value of an attribute given to a child element
IsAttributeValue(v) ==
    LET nearest == findParent(v, isJSXAncestor)
    IN  nearest # <<>> /\ nearest.type \in {"JSXAttribute", "JSXSpreadAttribute"}

ForwardsProp(fn, name) == some(PropReads(fn, name), IsAttributeValue)

UsesProp(fn, name) == some(PropReads(fn, name), LAMBDA v : ~IsAttributeValue(v))

\* d: the components that forward the prop without using it
PureForwarders(name) ==
    { k \in DOMAIN ast : ForwardsProp(ast[k], name) /\ ~UsesProp(ast[k], name) }

\* c: the components that use the prop
PropUsers(name) == { k \in DOMAIN ast : UsesProp(ast[k], name) }

DrillIssues(name) == SelectSeq(ruleIssues, LAMBDA i : i.message.parts[1] = name)

\* C19: for every prop name, with d pure forwarders and c users, the rule
\* emits an issue for the name iff d >= 1 and d + c >= 2; the issue
\* reports d + c components, as a warning when d + c = 2 and as an error
\* when d + c >= 3
C19_IssueIffForwardedAndTwoHandlers ==
    DrillChecked =>
        \A name \in HandledNames :
            LET d == Cardinality(PureForwarders(name))
                c == Cardinality(PropUsers(name))
            IN  /\ (DrillIssues(name) # <<>>) <=> (d >= 1 /\ d + c >= 2)
                /\ \A k \in DOMAIN DrillIssues(name) :
                      /\ DrillIssues(name)[k].message.parts[2] = String(d + c)
                      /\ DrillIssues(name)[k].severity =
                             IF d + c >= 3 THEN "error" ELSE "warning"

\* the usages the traversal recorded for the prop, in the order of the map
RecordedUsages(name) ==
    SelectSeq(flatMap(componentProps, LAMBDA entry : entry.value),
              LAMBDA u : u.propName = name)

RecordedForwarders(name) ==
    SelectSeq(RecordedUsages(name), LAMBDA u : ~u.isUsedInComponent /\ u.isPassedToChild)

RecordedUsers(name) == SelectSeq(RecordedUsages(name), LAMBDA u : u.isUsedInComponent)

ComponentNames(usages) == [k \in DOMAIN usages |-> usages[k].componentName]

\* the names of the components that forward or use the prop, as declared
DeclaredHandlers(name) ==
    LET handlers == SelectSeq([k \in DOMAIN ast |-> k], LAMBDA k :
                        ForwardsProp(ast[k], name) \/ UsesProp(ast[k], name))
    IN  [k \in DOMAIN handlers |-> ast[handlers[k]].id.name]

\* C20 as stated: the chain of an issue lists the handling components in
\* declaration order, whether each forwards or uses the prop
C20_ChainInDeclarationOrder ==
    DrillChecked =>
        \A k \in DOMAIN ruleIssues :
            ruleIssues[k].message.parts[3] =
                join(DeclaredHandlers(ruleIssues[k].message.parts[1]), chainSeparator)

\* C20: the chain of an issue lists the components recorded as forwarding
\* the prop without using it, in declaration order, and after them the
\* components recorded as using it, in declaration order
C20_ForwardersThenUsers ==
    DrillChecked =>
        \A k \in DOMAIN ruleIssues :
            LET name == ruleIssues[k].message.parts[1]
            IN  ruleIssues[k].message.parts[3] =
                    join(ComponentNames(RecordedForwarders(name))
                             \o ComponentNames(RecordedUsers(name)),
                         chainSeparator)

\* an issue whose chain names a forwarder declared after a user
C20_Witness ==
    /\ DrillChecked
    /\ \E k \in DOMAIN ruleIssues :
          LET name == ruleIssues[k].message.parts[1]
          IN  \E i, j \in DOMAIN RecordedUsages(name) :
                 /\ i < j
                 /\ RecordedUsages(name)[i].isUsedInComponent
                 /\ ~RecordedUsages(name)[j].isUsedInComponent
                 /\ RecordedUsages(name)[j].isPassedToChild
---------------------------------------------------------------------------
(* Claims about server-vs-client-state *)

ServerChecked == pc = "checked" /\ Len(ast) = 1 /\ ast[1].id = Identifier(<<"P","a","n","e","l">>)

\* the client-only naming patterns
ClientOnlyPatterns ==
    { <<"f","o","r","m","d","a","t","a">>, <<"f","o","r","m">>, <<"i","n","p","u","t">>, <<"s","e","l","e","c","t","e","d">>, <<"i","s","o","p","e","n">>, <<"i","s","c","l","o","s","e","d">>, <<"i","s","v","i","s","i","b","l","e">>,
      <<"i","s","h","i","d","d","e","n">>, <<"t","h","e","m","e">>, <<"m","o","d","a","l">>, <<"d","r","o","p","d","o","w","n">>, <<"t","a","b">>, <<"a","c","t","i","v","e">> }

\* the known server-data naming patterns
KnownServerNames ==
    { <<"u","s","e","r","s">>, <<"p","o","s","t","s">>, <<"p","r","o","d","u","c","t","s">>, <<"i","t","e","m","s">>, <<"r","e","s","u","l","t","s">>, <<"r","e","s","p","o","n","s","e">>, <<"o","r","d","e","r","s">>,
      <<"c","u","s","t","o","m","e","r","s">>, <<"a","r","t","i","c","l","e","s">>, <<"c","o","m","m","e","n","t","s">>, <<"p","r","o","f","i","l","e">>, <<"s","e","t","t","i","n","g","s">>, <<"c","o","n","f","i","g">> }

ContainsClientPattern(name) ==
    \E p \in ClientOnlyPatterns : includes(toLowerCase(name), p)

MatchesServerName(name) ==
    \E p \in KnownServerNames :
        startsWith(toLowerCase(name), p) \/ endsWith(toLowerCase(name), p)

EndsWithData(name) == endsWith(toLowerCase(name), <<"d","a","t","a">>)

\* the issues of the naming pathway for a state: those raised at the
\* component itself, naming the state alone
NamingIssues(name) ==
    SelectSeq(ruleIssues, LAMBDA i :
        /\ i.line = ast[1].loc.line /\ i.column = ast[1].loc.column
        /\ i.message.parts = <<name>>)

\* C21: a state whose name holds no client-only pattern and matches a
\* server-data pattern or ends with "data" yields one issue on its own; a
\* name holding a client-only pattern yields none through the naming pathway
C21_ServerNamedStateIsReported ==
    ServerChecked =>
        \A k \in DOMAIN stateCalls :
            LET name == stateCalls[k].name
            IN  /\ ContainsClientPattern(name) => NamingIssues(name) = <<>>
                /\ (~ContainsClientPattern(name)
                    /\ (MatchesServerName(name) \/ EndsWithData(name)))
                       => Len(NamingIssues(name)) = 1

\* the issues raised at the network call of the effect
EffectCallIssues == SelectSeq(ruleIssues, LAMBDA i : i.line = 4)

\* the issues raised at a fetch call of the component body
DirectCallIssues == SelectSeq(ruleIssues, LAMBDA i : i.line \in {7, 8})

\* the recognized network calls: bare fetch, an HTTP-client member call, a
\* GraphQL-style member call
IsNetworkCall(node) ==
    /\ node.type = "CallExpression"
    /\ \/ node.callee = Identifier(<<"f","e","t","c","h">>)
       \/ /\ node.callee.type = "MemberExpression"
          /\ \/ /\ node.callee.object.name \in {<<"a","x","i","o","s">>, <<"h","t","t","p">>, <<"a","p","i">>, <<"c","l","i","e","n","t">>}
                /\ node.callee.property.name \in
                       {<<"g","e","t">>, <<"p","o","s","t">>, <<"p","u","t">>, <<"d","e","l","e","t","e">>, <<"p","a","t","c","h">>, <<"r","e","q","u","e","s","t">>, <<"q","u","e","r","y">>}
             \/ /\ toLowerCase(node.callee.object.name) \in {<<"c","l","i","e","n","t">>, <<"a","p","o","l","l","o">>, <<"g","r","a","p","h","q","l">>}
                /\ node.callee.property.name \in {<<"q","u","e","r","y">>, <<"m","u","t","a","t","e">>, <<"s","u","b","s","c","r","i","b","e">>}

EffectHasCall ==
    \E k \in DOMAIN ast[1].visited :
        ast[1].visited[k].loc.line = 4 /\ IsNetworkCall(ast[1].visited[k].node)

EffectSetsDataState ==
    /\ \E k \in DOMAIN ast[1].visited : ast[1].visited[k].loc.line = 5
    /\ dataStatesOf(stateCalls) # <<>>

\* C28: the one network call of an effect yields at most one issue, exactly
\* one when the effect sets a matching data state; the fetch calls outside
\* any effect yield at most one issue per component
C28_OneIssuePerNetworkCall ==
    ServerChecked =>
        /\ Len(EffectCallIssues) <= 1
        /\ (EffectHasCall /\ EffectSetsDataState) => Len(EffectCallIssues) = 1
        /\ Len(DirectCallIssues) <= 1
---------------------------------------------------------------------------
(* Claims about findUseStateCalls *)

HooksChecked == pc = "checked" /\ Len(ast) = 1 /\ ast[1].id = Identifier(<<"C","o","u","n","t","e","r">>)

\* the useState calls of the component, in source order
UseStateCallSites ==
    SelectSeq(ast[1].visited, LAMBDA v :
        v.node.type = "CallExpression" /\ v.node.callee = Identifier(<<"u","s","e","S","t","a","t","e">>))

\* the call initializes a declarator that binds exactly [identifier, identifier]
BindsExactlyAPair(v) ==
    /\ v.parent.type = "VariableDeclarator"
    /\ v.parent.id.type = "ArrayPattern"
    /\ Len(v.parent.id.elements) = 2
    /\ \A k \in 1..2 : v.parent.id.elements[k].type = "Identifier"

EntryOf(v) ==
    StateCall(v.parent.id.elements[1].name, v.parent.id.elements[2].name,
              IF v.node.arguments = <<>> THEN Undefined ELSE v.node.arguments[1], v.loc)

\* C22: the entries are those of the useState calls that initialize a
\* declarator binding exactly a pair of identifiers, one entry per such call,
\* in source order; every other shape is skipped
C22_EntriesAreExactlyThePairs ==
    HooksChecked =>
        stateCalls = map(SelectSeq(UseStateCallSites, BindsExactlyAPair), EntryOf)
---------------------------------------------------------------------------
(* Claims about isReactComponent *)

KindsChecked == pc = "checked" /\ Len(ast) = 1 /\ ast[1].loc = Loc(1, 0)
                /\ ast[1].params = <<>> /\ result \in BOOLEAN

IsFunctionNode(n) ==
    n.type \in {"FunctionDeclaration", "FunctionExpression", "ArrowFunctionExpression"}

IsNamedDeclaration(n) == n.type = "FunctionDeclaration" /\ n.id.type = "Identifier"

IsAssignedToVariable(n) ==
    n.parent.type = "VariableDeclarator" /\ n.parent.id.type = "Identifier"

StartsUppercase(name) == \E k \in DOMAIN UpperChars : name[1] = UpperChars[k]

HoldsMarkup(n) ==
    \E k \in DOMAIN n.visited : n.visited[k].node.type \in {"JSXElement", "JSXFragment"}

\* C23: first match wins: a named function declaration is a component iff
\* its name starts uppercase; otherwise a function assigned to a variable is
\* one iff the variable's name starts uppercase; any other function is one
\* iff its subtree holds a markup element or fragment; a non-function node
\* is none
C23_ClassifiedByFirstMatch ==
    KindsChecked =>
        LET n == ast[1]
        IN  result = (CASE ~IsFunctionNode(n) -> FALSE
                        [] IsFunctionNode(n) /\ IsNamedDeclaration(n) ->
                              StartsUppercase(n.id.name)
                        [] IsFunctionNode(n) /\ ~IsNamedDeclaration(n)
                               /\ IsAssignedToVariable(n) ->
                              StartsUppercase(n.parent.id.name)
                        [] OTHER -> HoldsMarkup(n))

\* a lowercase-named declaration holding markup was classified
C23_Witness ==
    /\ KindsChecked
    /\ IsNamedDeclaration(ast[1]) /\ ~StartsUppercase(ast[1].id.name)
    /\ HoldsMarkup(ast[1]) /\ result = FALSE
---------------------------------------------------------------------------
(* Claims about avoid-redundant-state *)

RedundantChecked == pc = "checked" /\ Len(ast) = 1 /\ ast[1].id = Identifier(<<"L","i","s","t","i","n","g">>)

DerivableKeywords ==
    { <<"t","o","t","a","l">>, <<"s","u","m">>, <<"c","o","u","n","t">>, <<"l","e","n","g","t","h">>, <<"s","i","z","e">>, <<"f","u","l","l">>, <<"e","m","p","t","y">>, <<"v","a","l","i","d">>, <<"i","n","v","a","l","i","d">>,
      <<"e","n","a","b","l","e","d">>, <<"d","i","s","a","b","l","e","d">>, <<"v","i","s","i","b","l","e">>, <<"h","i","d","d","e","n">>, <<"s","e","l","e","c","t","e","d">>, <<"c","h","e","c","k","e","d">>, <<"a","c","t","i","v","e">>,
      <<"f","o","r","m","a","t","t","e","d">>, <<"d","i","s","p","l","a","y">>, <<"l","a","b","e","l">>, <<"p","e","r","c","e","n","t">>, <<"p","r","o","g","r","e","s","s">>, <<"r","a","t","i","o">>,
      <<"m","i","n">>, <<"m","a","x">>, <<"a","v","e","r","a","g","e">>, <<"m","e","a","n">> }

HoldsOneOf(name, keywords) == \E p \in keywords : includes(toLowerCase(name), p)

CountLike(name) == HoldsOneOf(name, { <<"c","o","u","n","t">>, <<"l","e","n","g","t","h">>, <<"s","i","z","e">>, <<"t","o","t","a","l">> })

EnabledLike(name) == HoldsOneOf(name, { <<"e","n","a","b","l","e","d">>, <<"d","i","s","a","b","l","e","d">>, <<"v","i","s","i","b","l","e">>, <<"h","i","d","d","e","n">> })

\* a plausible source for entry k among its siblings
HasPlausibleSource(k) ==
    LET name == stateCalls[k].name
        siblings == DOMAIN stateCalls \ {k}
    IN  IF CountLike(name)
        THEN \E j \in siblings : stateCalls[j].initialValue.type = "ArrayExpression"
        ELSE IF EnabledLike(name)
        THEN \E j \in siblings : BooleanFlavored(stateCalls[j])
        ELSE siblings # {}

\* the issues raised at the declaration of entry k
RedundantIssuesAt(k) ==
    SelectSeq(ruleIssues, LAMBDA i :
        i.line = stateCalls[k].loc.line /\ i.column = stateCalls[k].loc.column)

\* C24: an entry whose name holds a derivable-quantity keyword is flagged
\* iff a plausible source exists among its siblings; an entry without
\* keyword, or alone in its component, is not flagged; no entry is flagged
\* twice
C24_FlaggedIffPlausibleSource ==
    RedundantChecked =>
        \A k \in DOMAIN stateCalls :
            /\ Len(RedundantIssuesAt(k)) <= 1
            /\ (RedundantIssuesAt(k) # <<>>)
                   <=> (HoldsOneOf(stateCalls[k].name, DerivableKeywords)
                        /\ HasPlausibleSource(k))
---------------------------------------------------------------------------
(* Claims about findRelatedStateGroups *)

\* the entries collected into a group anchored before position i
CollectedBefore(i) ==
    { e \in DOMAIN stateCalls :
          \E g \in DOMAIN groups : groups[g][1] < i /\ e \in Range(groups[g]) }

\* what the anchor at position i collects: itself and the later entries
\* related to it that no earlier anchor collected
CollectedBy(i) ==
    {i} \cup { j \in (i + 1)..Len(stateCalls) :
                   areRelated(stateCalls[i], stateCalls[j]) /\ j \notin CollectedBefore(i) }

\* the positions that anchor a group of two or more
ReportedAnchors ==
    { i \in DOMAIN stateCalls : i \notin CollectedBefore(i) /\ Cardinality(CollectedBy(i)) >= 2 }

\* the issue's message lists the name among the grouped state variables
NamedIn(issue, name) == includes(<<","," ">> \o issue.message.parts[2] \o <<","," ">>, <<","," ">> \o name \o <<","," ">>)

\* C25: the groups are those of the union-by-first-match procedure: one per
\* unprocessed entry that collects a later one, in declaration order of the
\* anchors, holding exactly the anchor and the later unprocessed entries
\* related to the anchor, in declaration order; the groups are pairwise
\* disjoint, have two or more members, and every entry is named in at most one
\* issue
C25_UnionByFirstMatch ==
    pc = "done" =>
        /\ { groups[g][1] : g \in DOMAIN groups } = ReportedAnchors
        /\ \A g, h \in DOMAIN groups :
              /\ g < h => groups[g][1] < groups[h][1]
              /\ g # h => Range(groups[g]) \cap Range(groups[h]) = {}
        /\ \A g \in DOMAIN groups :
              /\ Len(groups[g]) >= 2
              /\ Range(groups[g]) = CollectedBy(groups[g][1])
              /\ \A k \in 2..Len(groups[g]) : groups[g][k - 1] < groups[g][k]
        /\ Len(issues) = Len(groups)
        /\ \A e \in DOMAIN stateCalls :
              Cardinality({ k \in DOMAIN issues : NamedIn(issues[k], stateCalls[e].name) }) <= 1

\* an entry related to a member of an earlier group but left to anchor, or
\* join, a later group: two groups were reported
C25_Witness ==
    /\ pc = "done"
    /\ Len(groups) >= 2
    /\ \E g \in DOMAIN groups : \E e \in DOMAIN stateCalls :
          /\ e \notin Range(groups[g]) /\ e > groups[g][1]
          /\ \E m \in Range(groups[g]) : areRelated(stateCalls[m], stateCalls[e])
---------------------------------------------------------------------------
(* Claims about the sibling lists of prefer-explicit-transitions *)

\* the calls of the component, as the traversal meets them
ComponentCalls == visit(ast[1], "CallExpression")

\* the calls of a setter
CallSitesOf(setter) ==
    SelectSeq(ComponentCalls, LAMBDA v : v.node.callee = Identifier(setter))

\* the setter is invoked in the enclosing block of one of the call sites
SharesBlockWith(other, sites) ==
    \E i \in DOMAIN sites : \E j \in DOMAIN CallSitesOf(other) :
        nearestBlock(sites[i]) = nearestBlock(CallSitesOf(other)[j])

\* C26: the sibling list of a setter holds only other setters invoked in the
\* enclosing block of one of its call sites: never the setter itself, and
\* each co-occurring setter once
C26_SiblingsAreOtherSettersOnce ==
    Classified =>
        \A k \in DOMAIN result.patterns :
            LET p == result.patterns[k]
            IN  /\ \A i \in DOMAIN p.updatesWithOthers :
                      /\ p.updatesWithOthers[i] # p.setterName
                      /\ SharesBlockWith(p.updatesWithOthers[i], CallSitesOf(p.setterName))
                /\ \A i, j \in DOMAIN p.updatesWithOthers :
                      i # j => p.updatesWithOthers[i] # p.updatesWithOthers[j]
---------------------------------------------------------------------------
(* state-vs-refs: states the component only uses outside its markup        *)

UsageChecked == pc = "checked"

\* the families of names of values that never reach the screen
NonRenderWords ==
    { <<"t","i","m","e","r">>, <<"i","n","t","e","r","v","a","l">>, <<"t","i","m","e","o","u","t">>, <<"r","e","f">>, <<"e","l","e","m","e","n","t">>, <<"n","o","d","e">>, <<"d","o","m">>,
      <<"p","r","e","v">>, <<"p","r","e","v","i","o","u","s">>, <<"l","a","s","t">>, <<"o","l","d">>, <<"c","o","u","n","t">>, <<"c","o","u","n","t","e","r">>, <<"c","l","i","c","k","s">>, <<"i","n","d","e","x">>,
      <<"p","o","s","i","t","i","o","n">>, <<"m","o","u","n","t","e","d">>, <<"i","n","i","t","i","a","l","i","z","e","d">>, <<"s","e","t","u","p">>, <<"r","e","a","d","y">>, <<"t","i","m","e">>, <<"m","o","u","n","t","t","i","m","e">>,
      <<"r","e","n","d","e","r","c","o","u","n","t">> }

MatchesNonRenderPattern(name) == HoldsOneOf(name, NonRenderWords)

\* the places where the component reads the state
UsageSitesOf(fn, name) ==
    {k \in DOMAIN fn.visited : ReadsVariable(fn.visited[k].node, name)}

\* every place where the component reads the state lies outside the markup
\* it returns: in an effect, in a handler, or anywhere else
OnlyNonRenderUsages(fn, name) ==
    \A k \in UsageSitesOf(fn, name) : ~ BelowOwnReturn(fn.visited[k])

\* C27: a state entry that the returned markup does not refer to is reported
\* if its name matches a non-render naming pattern, whatever its usage
\* sites, and otherwise whenever every usage site of its name lies in a
\* non-render context.
C27_FlaggedWhenOnlyUsedOutsideRender ==
    UsageChecked =>
        \A f \in DOMAIN ast :
            \A e \in DOMAIN findUseStateCalls(ast[f]) :
                LET entry == findUseStateCalls(ast[f])[e]
                IN  ~ ReferencedInMarkup(ast[f], entry.name)
                    => IF MatchesNonRenderPattern(entry.name) THEN RefFlagged(entry)
                       ELSE OnlyNonRenderUsages(ast[f], entry.name) => RefFlagged(entry)

\* C27, amended: a state entry that the returned markup does not refer to is
\* reported if its name matches a non-render naming pattern, whatever its
\* usage sites; an entry of any other name is reported exactly when the
\* component reads it somewhere, and an entry that is never read is not
\* reported.
C27_FlaggedWhenReadOutsideRender ==
    UsageChecked =>
        \A f \in DOMAIN ast :
            \A e \in DOMAIN findUseStateCalls(ast[f]) :
                LET entry == findUseStateCalls(ast[f])[e]
                IN  ~ ReferencedInMarkup(ast[f], entry.name)
                    => IF MatchesNonRenderPattern(entry.name) THEN RefFlagged(entry)
                       ELSE RefFlagged(entry) <=> UsageSitesOf(ast[f], entry.name) # {}

\* a state of a plain name, read in an effect and in a handler only, is reported
C27_Witness ==
    /\ UsageChecked
    /\ \E e \in DOMAIN findUseStateCalls(ast[1]) :
          LET entry == findUseStateCalls(ast[1])[e]
          IN  /\ ~ MatchesNonRenderPattern(entry.name)
              /\ ~ ReferencedInMarkup(ast[1], entry.name)
              /\ Cardinality(UsageSitesOf(ast[1], entry.name)) >= 2
              /\ RefFlagged(entry)
---------------------------------------------------------------------------
(* state declarations of a component declared inside another one           *)

NestedChecked == pc = "checked"

\* the function is written like a component: its name starts with a capital
ComponentLike(fn) ==
    \/ IsNamedDeclaration(fn) /\ StartsUppercase(fn.id.name)
    \/ IsAssignedToVariable(fn) /\ StartsUppercase(fn.parent.id.name)

\* the functions of the file declared inside the first one
InnerFunctions == {f \in DOMAIN ast : f > 1}

\* the issues that tell the same thing about the same place
SameIssues(issue) ==
    {k \in DOMAIN ruleIssues :
        /\ ruleIssues[k].rule = issue.rule
        /\ ruleIssues[k].message = issue.message
        /\ ruleIssues[k].line = issue.line
        /\ ruleIssues[k].column = issue.column}

\* C29: a useState declaration of a component-like function nested in
\* another component-like function is extracted for the inner component
\* only: the state entries of the outer component do not include it, and a
\* per-state rule reports it at most once per kind of issue.
C29_InnerStateBelongsToInnerOnly ==
    NestedChecked =>
        \A f \in InnerFunctions :
            ComponentLike(ast[1]) /\ ComponentLike(ast[f])
            => \A e \in DOMAIN findUseStateCalls(ast[f]) :
                  LET entry == findUseStateCalls(ast[f])[e]
                  IN  /\ \A o \in DOMAIN stateCalls : stateCalls[o].loc # entry.loc
                      /\ \A k \in DOMAIN ruleIssues :
                            ruleIssues[k].line = entry.loc.line
                            => Cardinality(SameIssues(ruleIssues[k])) = 1
---------------------------------------------------------------------------
(* analyzer.analyze: the files the issues of a result belong to            *)

\* C30: in every result of analyzer.analyze each issue belongs to a file of
\* the run that is not listed in filesSkipped, and every file of the run is
\* either counted in filesAnalyzed or listed in filesSkipped, whichever step
\* for a file throws: readFile, parse, or the check of one of the rules.
C30_IssuesBelongToAnalyzedFiles ==
    pc = "returned" =>
        /\ result.filesAnalyzed + Len(result.filesSkipped) = result.filesFound
        /\ \A k \in DOMAIN result.issues :
              /\ \E f \in DOMAIN files : files[f] = result.issues[k].file
              /\ \A s \in DOMAIN result.filesSkipped :
                    result.filesSkipped[s] # result.issues[k].file
====
